---------------------------- MODULE Spec2Model ----------------------------
(***************************************************************************)
(* A model of the playbook parser (src/src/yaml-parser.js): the            *)
(* line-oriented state machine of parsePlaybook with its helpers.          *)
(*                                                                         *)
(* Text.  A physical line is a sequence of tokens.  A token is either one  *)
(* of the characters the parser's regular expressions and scanners single  *)
(* out (space, tab, dash, colon, the two quotes, brackets, comma, hash) or *)
(* a word: a maximal run of other characters, kept whole.  Char classes of *)
(* the regular expressions are sets of words (IdentWords, SlugWords).      *)
(* A JavaScript string value is the TLA+ string its tokens spell (Str).    *)
(* JavaScript null is the string null, which no token sequence spells.     *)
(***************************************************************************)
EXTENDS Integers, Sequences, FiniteSets, TLC

(***************************************************************************)
(* Bounds of the model.                                                    *)
(***************************************************************************)
MaxLines == 12

(***************************************************************************)
(* JavaScript values.                                                      *)
(***************************************************************************)
null == "<null>"
undefined == "<undefined>"
NoItem == <<>>
NoIndent == -1

\* !v for a string-or-null value.
Falsy(v) == v \in {null, undefined, ""}

\* property read: obj[field], undefined when the object has no such key.
Prop(obj, field) == IF field \in DOMAIN obj THEN obj[field] ELSE undefined

(***************************************************************************)
(* Tokens.                                                                 *)
(***************************************************************************)
WS == {" ", "\t"}
Quotes == {"\"", "'"}

\* words matching [a-zA-Z_][a-zA-Z0-9_-]* (the key of matchKeyValue)
IdentWords ==
  {"name", "description", "version", "args", "steps", "id", "command",
   "autonomy", "error_policy", "preconditions", "postconditions",
   "escalation_triggers", "parallel_group", "model", "required", "extra",
   "a", "b", "m", "d", "x", "g", "Bad", "auto", "skip", "gate_always",
   "gate_on_breaking", "stop", "retry_once", "gate", "nope", "opus",
   "sonnet", "haiku", "Sonnet", "spec_exists", "plan_exists", "tasks_exists",
   "agreement_exists", "agreement_pass", "qa_plan_exists", "qa_verdict_pass",
   "pr_created", "postcondition_fail", "verdict_fail", "agreement_breaking",
   "subagent_error", "true", "false", "yes"}

\* strings matching ^[a-z0-9-]+$ (the slug pattern); "-" alone matches too
SlugWords ==
  {"name", "description", "version", "args", "steps", "id", "command",
   "autonomy", "preconditions", "postconditions", "model", "required",
   "extra", "a", "b", "m", "d", "x", "g", "auto", "skip", "stop", "gate",
   "nope", "opus", "sonnet", "haiku", "true", "false", "yes", "-"}

Spaces(n) == [i \in 1..n |-> " "]

RECURSIVE Str(_)
Str(tokens) == IF tokens = <<>> THEN "" ELSE Head(tokens) \o Str(Tail(tokens))

RECURSIVE LeadingIn(_, _)
LeadingIn(tokens, S) ==
  IF tokens # <<>> /\ Head(tokens) \in S THEN 1 + LeadingIn(Tail(tokens), S) ELSE 0

RECURSIVE TrailingIn(_, _)
TrailingIn(tokens, S) ==
  IF tokens # <<>> /\ tokens[Len(tokens)] \in S
    THEN 1 + TrailingIn(SubSeq(tokens, 1, Len(tokens) - 1), S) ELSE 0

\* String.prototype.trim
trim(tokens) ==
  LET n == LeadingIn(tokens, WS) IN
  IF n = Len(tokens) THEN <<>>
  ELSE SubSeq(tokens, n + 1, Len(tokens) - TrailingIn(tokens, WS))

(***************************************************************************)
(* Low-level string helpers.                                               *)
(***************************************************************************)
unquote(raw) ==
  LET s == trim(raw) IN
  IF s # <<>> /\ ((Head(s) = "\"" /\ s[Len(s)] = "\"") \/ (Head(s) = "'" /\ s[Len(s)] = "'"))
    THEN SubSeq(s, 2, Len(s) - 1)
    ELSE s

indentOf(line) == LeadingIn(line, {" "})

(***************************************************************************)
(* Errors: the parts a thrown message is built from.  line = 0 when the    *)
(* message carries no "Line N:" prefix.                                    *)
(***************************************************************************)
Error(kind, lineNum, subject, value, ref, allowed) ==
  [kind |-> kind, line |-> lineNum, subject |-> subject, value |-> value,
   ref |-> ref, allowed |-> allowed]

NoRef == [id |-> "", index |-> 0]
NoError == Error("none", 0, "", "", NoRef, <<>>)

RECURSIVE ScanInline(_, _, _, _, _)
ScanInline(inner, i, items, current, quoteChar) ==
  IF i > Len(inner)
    THEN IF trim(current) # <<>> THEN Append(items, Str(trim(current))) ELSE items
    ELSE LET ch == inner[i] IN
         IF quoteChar # ""
           THEN IF ch = quoteChar
                  THEN ScanInline(inner, i + 1, items, current, "")
                  ELSE ScanInline(inner, i + 1, items, Append(current, ch), quoteChar)
           ELSE IF ch \in Quotes
                  THEN ScanInline(inner, i + 1, items, current, ch)
                  ELSE IF ch = ","
                         THEN ScanInline(inner, i + 1, Append(items, Str(trim(current))), <<>>, "")
                         ELSE ScanInline(inner, i + 1, items, Append(current, ch), "")

\* [a, b, c] -> <<"a", "b", "c">>; the message of the error has no line number
parseInlineList(raw) ==
  LET s == trim(raw) IN
  IF s = <<>> \/ Head(s) # "[" \/ s[Len(s)] # "]"
    THEN [thrown |-> TRUE, items |-> <<>>,
          err |-> Error("inline_list_syntax", 0, "", Str(raw), NoRef, <<>>)]
    ELSE LET inner == trim(SubSeq(s, 2, Len(s) - 1)) IN
         [thrown |-> FALSE,
          items |-> IF inner = <<>> THEN <<>> ELSE ScanInline(inner, 1, <<>>, <<>>, ""),
          err |-> NoError]

(***************************************************************************)
(* Line-oriented parsing primitives.                                       *)
(***************************************************************************)
NoMatch == [ok |-> FALSE, indent |-> 0, key |-> "", rawValue |-> <<>>]

\* /^(\s*)([a-zA-Z_][a-zA-Z0-9_-]*):\s*(.*?)\s*$/
matchKeyValue(line) ==
  LET n == LeadingIn(line, WS) IN
  IF Len(line) >= n + 2 /\ line[n + 1] \in IdentWords /\ line[n + 2] = ":"
    THEN [ok |-> TRUE, indent |-> n, key |-> line[n + 1],
          rawValue |-> trim(SubSeq(line, n + 3, Len(line)))]
    ELSE NoMatch

\* /^(\s*)-\s+(.*?)\s*$/
matchListItem(line) ==
  LET n == LeadingIn(line, WS) IN
  IF Len(line) >= n + 2 /\ line[n + 1] = "-" /\ line[n + 2] \in WS
    THEN [ok |-> TRUE, indent |-> n, key |-> "",
          rawValue |-> trim(SubSeq(line, n + 3, Len(line)))]
    ELSE NoMatch

isBlockMappingStart(rawValue) == trim(rawValue) = <<>>

(***************************************************************************)
(* Enum vocabularies, in the order the error messages list them.           *)
(***************************************************************************)
AUTONOMY_VALUES == <<"auto", "gate_on_breaking", "gate_always", "skip">>
ERROR_POLICY_VALUES == <<"stop", "retry_once", "gate">>
ESCALATION_TRIGGER_VALUES ==
  <<"postcondition_fail", "verdict_fail", "agreement_breaking", "subagent_error">>
CONDITION_VALUES ==
  <<"spec_exists", "plan_exists", "tasks_exists", "agreement_exists",
    "agreement_pass", "qa_plan_exists", "qa_verdict_pass", "pr_created">>

Range(seq) == {seq[i] : i \in DOMAIN seq}
has(values, v) == v \in Range(values)

blockListFields == {"preconditions", "postconditions", "escalation_triggers"}

(***************************************************************************)
(* Object factories.  JSBool wraps the boolean of an argument's            *)
(* "required" so that it can be told from the null of a field not yet set. *)
(***************************************************************************)
JSBool(b) == <<b>>
NullBool == <<>>

_emptyArg == [name |-> null, description |-> null, required |-> NullBool]

\* mutant: args and parallel_group start the other way round
_emptyStep_swappedDefaults ==
  [id |-> null, command |-> null, args |-> null, autonomy |-> null,
   preconditions |-> <<>>, postconditions |-> <<>>, error_policy |-> null,
   escalation_triggers |-> <<>>, parallel_group |-> ""]

_emptyStep ==
  [id |-> null, command |-> null, args |-> "", autonomy |-> null,
   preconditions |-> <<>>, postconditions |-> <<>>, error_policy |-> null,
   escalation_triggers |-> <<>>, parallel_group |-> null]

(***************************************************************************)
(* Validation helpers.  Each returns the error it throws, NoError if none.  *)
(***************************************************************************)
\* mutant: every list member is checked against the condition vocabulary
_validateConditionOrTrigger_conditionsOnly(field, value, lineNum) ==
  IF ~has(CONDITION_VALUES, value)
    THEN Error("invalid_condition", lineNum, field, value, NoRef, CONDITION_VALUES)
    ELSE NoError

_validateConditionOrTrigger(field, value, lineNum) ==
  IF field = "escalation_triggers"
    THEN IF ~has(ESCALATION_TRIGGER_VALUES, value)
           THEN Error("invalid_escalation_trigger", lineNum, field, value, NoRef,
                      ESCALATION_TRIGGER_VALUES)
           ELSE NoError
    ELSE IF ~has(CONDITION_VALUES, value)
           THEN Error("invalid_condition", lineNum, field, value, NoRef, CONDITION_VALUES)
           ELSE NoError

RECURSIVE _validateListField(_, _, _)
_validateListField(field, items, lineNum) ==
  IF items = <<>> THEN NoError
  ELSE LET e == _validateConditionOrTrigger(field, Head(items), lineNum) IN
       IF e # NoError THEN e ELSE _validateListField(field, Tail(items), lineNum)

_validateArg(arg, index) ==
  IF Falsy(arg.name)
    THEN Error("arg_missing_field", 0, "name", "", [id |-> "", index |-> index], <<>>)
  ELSE IF Falsy(arg.description)
    THEN Error("arg_missing_field", 0, "description", "", [id |-> arg.name, index |-> index], <<>>)
  ELSE IF arg.required = NullBool
    THEN Error("arg_missing_field", 0, "required", "", [id |-> arg.name, index |-> index], <<>>)
  ELSE NoError

\* mutant: the position of a step without id is counted from 0
StepRef_zeroBased(step, index) ==
  IF ~Falsy(step.id) THEN [id |-> step.id, index |-> 0] ELSE [id |-> "", index |-> index - 1]

\* ref: step "<id>" when the id is set, steps[<index>] otherwise
StepRef(step, index) ==
  IF ~Falsy(step.id) THEN [id |-> step.id, index |-> 0] ELSE [id |-> "", index |-> index]

\* mutant: the error_policy check is forgotten
_validateStep_noErrorPolicy(step, index) ==
  LET ref == StepRef(step, index) IN
  IF Falsy(step.id) THEN Error("step_missing_field", 0, "id", "", ref, <<>>)
  ELSE IF Falsy(step.command) THEN Error("step_missing_field", 0, "command", "", ref, <<>>)
  ELSE IF Falsy(step.autonomy) THEN Error("step_missing_field", 0, "autonomy", "", ref, <<>>)
  ELSE NoError

_validateStep(step, index) ==
  LET ref == StepRef(step, index) IN
  IF Falsy(step.id) THEN Error("step_missing_field", 0, "id", "", ref, <<>>)
  ELSE IF Falsy(step.command) THEN Error("step_missing_field", 0, "command", "", ref, <<>>)
  ELSE IF Falsy(step.autonomy) THEN Error("step_missing_field", 0, "autonomy", "", ref, <<>>)
  ELSE IF Falsy(step.error_policy)
    THEN Error("step_missing_field", 0, "error_policy", "", ref, <<>>)
  ELSE NoError

(***************************************************************************)
(* Field applicators.  Each returns the item as left by the call and the   *)
(* error thrown, NoError if it returned.                                   *)
(***************************************************************************)
Applied(item) == [item |-> item, err |-> NoError]
Refused(item, e) == [item |-> item, err |-> e]

\* mutant: a key that is not a field of an argument is ignored
_applyArgField_ignoreUnknown(item, lineOrKv, lineNum) ==
  LET kv == matchKeyValue(lineOrKv)
      value == Str(unquote(kv.rawValue))
  IN
  IF ~kv.ok
    THEN Refused(item, Error("cannot_parse_arg_field", lineNum, "", Str(lineOrKv), NoRef, <<>>))
  ELSE IF kv.key = "name" THEN Applied([item EXCEPT !.name = value])
  ELSE IF kv.key = "description" THEN Applied([item EXCEPT !.description = value])
  ELSE IF kv.key = "required"
    THEN IF value # "true" /\ value # "false"
           THEN Refused(item, Error("arg_required_not_boolean", lineNum, "required", value,
                                    NoRef, <<>>))
           ELSE Applied([item EXCEPT !.required = JSBool(value = "true")])
  ELSE Applied(item)

_applyArgField(item, lineOrKv, lineNum) ==
  LET kv == matchKeyValue(lineOrKv)
      value == Str(unquote(kv.rawValue))
  IN
  IF ~kv.ok
    THEN Refused(item, Error("cannot_parse_arg_field", lineNum, "", Str(lineOrKv), NoRef, <<>>))
  ELSE IF kv.key = "name" THEN Applied([item EXCEPT !.name = value])
  ELSE IF kv.key = "description" THEN Applied([item EXCEPT !.description = value])
  ELSE IF kv.key = "required"
    THEN IF value # "true" /\ value # "false"
           THEN Refused(item, Error("arg_required_not_boolean", lineNum, "required", value,
                                    NoRef, <<>>))
           ELSE Applied([item EXCEPT !.required = JSBool(value = "true")])
  ELSE Refused(item, Error("unknown_arg_field", lineNum, kv.key, "", NoRef, <<>>))

\* mutant: the id is stored without the pattern test
StepId_noSlugCheck(item, value, lineNum) == Applied([item EXCEPT !.id = value])

\* case "id"
StepId(item, value, lineNum) ==
  IF value \notin SlugWords
    THEN Refused(item, Error("step_id_pattern", lineNum, "id", value, NoRef, <<>>))
    ELSE Applied([item EXCEPT !.id = value])

\* case "autonomy"
StepAutonomy(item, value, lineNum) ==
  IF ~has(AUTONOMY_VALUES, value)
    THEN Refused(item, Error("invalid_autonomy", lineNum, "autonomy", value, NoRef,
                             AUTONOMY_VALUES))
    ELSE Applied([item EXCEPT !.autonomy = value])

\* case "error_policy"
StepErrorPolicy(item, value, lineNum) ==
  IF ~has(ERROR_POLICY_VALUES, value)
    THEN Refused(item, Error("invalid_error_policy", lineNum, "error_policy", value, NoRef,
                             ERROR_POLICY_VALUES))
    ELSE Applied([item EXCEPT !.error_policy = value])

\* case "preconditions", "postconditions", "escalation_triggers"
StepInlineList(item, key, unquoted, lineNum) ==
  LET parsed == parseInlineList(unquoted)
      bad == _validateListField(key, parsed.items, lineNum)
  IN
  IF unquoted # <<>> /\ Head(unquoted) = "["
    THEN IF parsed.thrown THEN Refused(item, parsed.err)
         ELSE IF bad # NoError THEN Refused(item, bad)
         ELSE Applied([item EXCEPT ![key] = parsed.items])
    ELSE IF unquoted = <<>> THEN Applied([item EXCEPT ![key] = <<>>])
    ELSE Refused(item, Error("field_must_be_list", lineNum, key, "", NoRef, <<>>))

_applyStepField(item, lineOrKv, lineNum) ==
  LET kv == matchKeyValue(lineOrKv)
      unquoted == unquote(kv.rawValue)
      value == Str(unquoted)
  IN
  IF ~kv.ok
    THEN Refused(item, Error("cannot_parse_step_field", lineNum, "", Str(lineOrKv), NoRef, <<>>))
  ELSE IF kv.key = "id" THEN StepId(item, value, lineNum)
  ELSE IF kv.key = "command" THEN Applied([item EXCEPT !.command = value])
  ELSE IF kv.key = "args" THEN Applied([item EXCEPT !.args = value])
  ELSE IF kv.key = "autonomy" THEN StepAutonomy(item, value, lineNum)
  ELSE IF kv.key = "error_policy" THEN StepErrorPolicy(item, value, lineNum)
  ELSE IF kv.key = "parallel_group" THEN Applied([item EXCEPT !.parallel_group = value])
  ELSE IF kv.key \in blockListFields THEN StepInlineList(item, kv.key, unquoted, lineNum)
  ELSE Refused(item, Error("unknown_step_field", lineNum, kv.key, "", NoRef, <<>>))

(***************************************************************************)
(* The state machine of parsePlaybook.  P is the record of its local       *)
(* variables; each context handler maps (P, line, lineNum) to the          *)
(* variables as the iteration leaves them and to how the iteration ends:   *)
(* "continue" (next line), "rewind" (lineIdx--, same line again) or        *)
(* "throw".                                                                *)
(***************************************************************************)
Continue(P) == [st |-> P, ctl |-> "continue", err |-> NoError]
Rewind(P) == [st |-> P, ctl |-> "rewind", err |-> NoError]
Throw(P, e) == [st |-> P, ctl |-> "throw", err |-> e]

LineError(kind, lineNum, line) == Error(kind, lineNum, "", Str(trim(line)), NoRef, <<>>)

emptyResult ==
  [name |-> null, description |-> null, version |-> null, args |-> <<>>, steps |-> <<>>]

\* variant: the empty-list shorthand opens the list context like an empty value
TopContext_shorthandOpens(P, line, lineNum) ==
  LET kv == matchKeyValue(line)
      raw == Str(kv.rawValue)
  IN
  IF ~kv.ok THEN Throw(P, LineError("unexpected_content_top", lineNum, line))
  ELSE IF kv.indent # 0 THEN Throw(P, LineError("unexpected_indentation_top", lineNum, line))
  ELSE IF kv.key = "name"
    THEN Continue([P EXCEPT !.result.name = Str(unquote(kv.rawValue))])
  ELSE IF kv.key = "description"
    THEN Continue([P EXCEPT !.result.description = Str(unquote(kv.rawValue))])
  ELSE IF kv.key = "version"
    THEN Continue([P EXCEPT !.result.version = Str(unquote(kv.rawValue))])
  ELSE IF kv.key = "args"
    THEN IF raw = "[]" \/ raw = "[ ]" THEN Continue(P)
         ELSE IF raw = "" THEN Continue([P EXCEPT !.context = "args"])
         ELSE Throw(P, Error("args_must_be_list", lineNum, "args", "", NoRef, <<>>))
  ELSE IF kv.key = "steps"
    THEN IF raw = "[]" \/ raw = "[ ]" THEN Continue([P EXCEPT !.context = "steps"])
         ELSE IF raw = "" THEN Continue([P EXCEPT !.context = "steps"])
         ELSE Throw(P, Error("steps_must_be_list", lineNum, "steps", "", NoRef, <<>>))
  ELSE Throw(P, Error("unknown_top_level_field", lineNum, kv.key, "", NoRef, <<>>))

\* context === "top"
TopContext(P, line, lineNum) ==
  LET kv == matchKeyValue(line)
      raw == Str(kv.rawValue)
  IN
  IF ~kv.ok THEN Throw(P, LineError("unexpected_content_top", lineNum, line))
  ELSE IF kv.indent # 0 THEN Throw(P, LineError("unexpected_indentation_top", lineNum, line))
  ELSE IF kv.key = "name"
    THEN Continue([P EXCEPT !.result.name = Str(unquote(kv.rawValue))])
  ELSE IF kv.key = "description"
    THEN Continue([P EXCEPT !.result.description = Str(unquote(kv.rawValue))])
  ELSE IF kv.key = "version"
    THEN Continue([P EXCEPT !.result.version = Str(unquote(kv.rawValue))])
  ELSE IF kv.key = "args"
    THEN IF raw = "[]" \/ raw = "[ ]" THEN Continue(P)
         ELSE IF raw = "" THEN Continue([P EXCEPT !.context = "args"])
         ELSE Throw(P, Error("args_must_be_list", lineNum, "args", "", NoRef, <<>>))
  ELSE IF kv.key = "steps"
    THEN IF raw = "[]" \/ raw = "[ ]" THEN Continue(P)
         ELSE IF raw = "" THEN Continue([P EXCEPT !.context = "steps"])
         ELSE Throw(P, Error("steps_must_be_list", lineNum, "steps", "", NoRef, <<>>))
  ELSE Throw(P, Error("unknown_top_level_field", lineNum, kv.key, "", NoRef, <<>>))

\* a "- ..." line opens an arg item; inline content is its first field
OpenArg(P, listItem, lineNum) ==
  LET opened == [P EXCEPT !.currentItem = _emptyArg, !.itemDashIndent = listItem.indent]
      applied == _applyArgField(opened.currentItem, listItem.rawValue, lineNum)
  IN
  IF isBlockMappingStart(listItem.rawValue) THEN Continue(opened)
  ELSE IF applied.err # NoError THEN Throw(opened, applied.err)
  ELSE Continue([opened EXCEPT !.currentItem = applied.item])

\* variant: the section's end is seen but the context is kept
ArgsContext_rewindInPlace(P, line, lineNum) ==
  LET listItem == matchListItem(line)
      kv == matchKeyValue(line)
  IN
  IF listItem.ok THEN OpenArg([P EXCEPT !.context = "args_item"], listItem, lineNum)
  ELSE IF kv.ok /\ kv.indent = 0 THEN Rewind(P)
  ELSE Throw(P, LineError("unexpected_content_args", lineNum, line))

\* context === "args"
ArgsContext(P, line, lineNum) ==
  LET listItem == matchListItem(line)
      kv == matchKeyValue(line)
  IN
  IF listItem.ok THEN OpenArg([P EXCEPT !.context = "args_item"], listItem, lineNum)
  ELSE IF kv.ok /\ kv.indent = 0 THEN Rewind([P EXCEPT !.context = "top"])
  ELSE Throw(P, LineError("unexpected_content_args", lineNum, line))

\* variant: the argument is pushed without being validated
FlushArg_unchecked(P) ==
  [st |-> [P EXCEPT !.result.args = Append(@, P.currentItem)], err |-> NoError]

\* _validateArg(currentItem, result.args.length + 1); result.args.push(currentItem)
FlushArg(P) ==
  LET e == _validateArg(P.currentItem, Len(P.result.args) + 1) IN
  [st |-> IF e = NoError
            THEN [P EXCEPT !.result.args = Append(@, P.currentItem)]
            ELSE P,
   err |-> e]

\* context === "args_item"
ArgsItemContext(P, line, lineNum) ==
  LET listItem == matchListItem(line)
      kv == matchKeyValue(line)
      flushed == FlushArg(P)
      applied == _applyArgField(P.currentItem, line, lineNum)
  IN
  IF listItem.ok /\ listItem.indent = P.itemDashIndent
    THEN IF flushed.err # NoError THEN Throw(P, flushed.err)
         ELSE OpenArg(flushed.st, listItem, lineNum)
  ELSE IF kv.ok /\ kv.indent = 0
    THEN IF flushed.err # NoError THEN Throw(P, flushed.err)
         ELSE Rewind([flushed.st EXCEPT !.currentItem = NoItem, !.context = "top"])
  ELSE IF kv.ok
    THEN IF applied.err # NoError THEN Throw(P, applied.err)
         ELSE Continue([P EXCEPT !.currentItem = applied.item])
  ELSE Throw(P, LineError("unexpected_content_args_item", lineNum, line))

\* a "- ..." line opens a step item; inline content is its first field
OpenStep(P, listItem, lineNum) ==
  LET opened == [P EXCEPT !.currentItem = _emptyStep, !.itemDashIndent = listItem.indent,
                          !.listField = null, !.listIndent = NoIndent]
      applied == _applyStepField(opened.currentItem, listItem.rawValue, lineNum)
  IN
  IF isBlockMappingStart(listItem.rawValue) THEN Continue(opened)
  ELSE IF applied.err # NoError THEN Throw(opened, applied.err)
  ELSE Continue([opened EXCEPT !.currentItem = applied.item])

\* context === "steps"
StepsContext(P, line, lineNum) ==
  LET listItem == matchListItem(line)
      kv == matchKeyValue(line)
  IN
  IF listItem.ok THEN OpenStep([P EXCEPT !.context = "steps_item"], listItem, lineNum)
  ELSE IF kv.ok /\ kv.indent = 0 THEN Rewind([P EXCEPT !.context = "top"])
  ELSE Throw(P, LineError("unexpected_content_steps", lineNum, line))

\* mutant: a step whose id is already in the list is refused at the flush
FlushStep_rejectDuplicate(P) ==
  LET e == _validateStep(P.currentItem, Len(P.result.steps) + 1)
      dup == \E i \in DOMAIN P.result.steps : P.result.steps[i].id = P.currentItem.id
  IN
  [st |-> IF e = NoError /\ ~dup
            THEN [P EXCEPT !.result.steps = Append(@, P.currentItem)]
            ELSE P,
   err |-> IF e # NoError THEN e
           ELSE IF dup THEN Error("duplicate_step_id", 0, "id", P.currentItem.id, NoRef, <<>>)
           ELSE NoError]

\* mutant: the flushed step is put at the head of the list
FlushStep_unshift(P) ==
  LET e == _validateStep(P.currentItem, Len(P.result.steps) + 1) IN
  [st |-> IF e = NoError
            THEN [P EXCEPT !.result.steps = <<P.currentItem>> \o @]
            ELSE P,
   err |-> e]

\* _validateStep(currentItem, result.steps.length + 1); result.steps.push(currentItem)
FlushStep(P) ==
  LET e == _validateStep(P.currentItem, Len(P.result.steps) + 1) IN
  [st |-> IF e = NoError
            THEN [P EXCEPT !.result.steps = Append(@, P.currentItem)]
            ELSE P,
   err |-> e]

\* a key: value line of the current step: a list field or a scalar field
StepFieldLine(P, kv, line, lineNum) ==
  LET parsed == parseInlineList(kv.rawValue)
      bad == _validateListField(kv.key, parsed.items, lineNum)
      applied == _applyStepField(P.currentItem, line, lineNum)
  IN
  IF kv.key \in blockListFields
    THEN IF kv.rawValue # <<>> /\ Head(kv.rawValue) = "["
           THEN IF parsed.thrown THEN Throw(P, parsed.err)
                ELSE IF bad # NoError THEN Throw(P, bad)
                ELSE Continue([P EXCEPT !.currentItem[kv.key] = parsed.items])
           ELSE IF kv.rawValue = <<>>
                  THEN Continue([P EXCEPT !.listField = kv.key,
                                          !.listIndent = indentOf(line) + 2])
                  ELSE Throw(P, Error("field_must_be_list", lineNum, kv.key, "", NoRef, <<>>))
    ELSE IF applied.err # NoError THEN Throw(P, applied.err)
         ELSE Continue([P EXCEPT !.currentItem = applied.item])

\* a "- item" line while a block list is being collected
BlockListItem(P, li, lineNum) ==
  LET val == Str(unquote(li.rawValue))
      bad == _validateConditionOrTrigger(P.listField, val, lineNum)
  IN
  IF bad # NoError THEN Throw(P, bad)
  ELSE Continue([P EXCEPT !.currentItem[P.listField] = Append(@, val)])

\* context === "steps_item", once the block list (if any) is known to be over
StepsItemFields(P, line, lineNum) ==
  LET listItem == matchListItem(line)
      kv == matchKeyValue(line)
      flushed == FlushStep(P)
      calibrated == BlockListItem(P, listItem, lineNum)
  IN
  IF listItem.ok /\ listItem.indent = P.itemDashIndent
    THEN IF flushed.err # NoError THEN Throw(P, flushed.err)
         ELSE OpenStep(flushed.st, listItem, lineNum)
  ELSE IF kv.ok /\ kv.indent = 0
    THEN IF flushed.err # NoError THEN Throw(P, flushed.err)
         ELSE Rewind([flushed.st EXCEPT !.currentItem = NoItem, !.listField = null,
                                        !.listIndent = NoIndent, !.context = "top"])
  ELSE IF kv.ok THEN StepFieldLine(P, kv, line, lineNum)
  ELSE IF P.listField # null /\ listItem.ok
    THEN IF calibrated.ctl = "throw" THEN calibrated
         ELSE Continue([calibrated.st EXCEPT
                          !.listIndent = IF @ = NoIndent THEN listItem.indent ELSE @])
  ELSE Throw(P, LineError("unexpected_content_step_item", lineNum, line))

\* variant: while a block list is collected, an item at any indentation is taken
StepsItemContext_anyIndent(P, line, lineNum) ==
  LET listItem == matchListItem(line) IN
  IF P.listField # null
    THEN IF listItem.ok
           THEN BlockListItem(P, listItem, lineNum)
           ELSE StepsItemFields([P EXCEPT !.listField = null, !.listIndent = NoIndent],
                                line, lineNum)
    ELSE StepsItemFields(P, line, lineNum)

\* context === "steps_item"
StepsItemContext(P, line, lineNum) ==
  LET listItem == matchListItem(line) IN
  IF P.listField # null
    THEN IF listItem.ok /\ listItem.indent = P.listIndent
           THEN BlockListItem(P, listItem, lineNum)
           ELSE StepsItemFields([P EXCEPT !.listField = null, !.listIndent = NoIndent],
                                line, lineNum)
    ELSE StepsItemFields(P, line, lineNum)

\* mutant: the version check is forgotten
EndOfInputChecks_noVersion(P) ==
  LET flushed == IF P.context = "args_item" /\ P.currentItem # NoItem THEN FlushArg(P)
                 ELSE IF P.context = "steps_item" /\ P.currentItem # NoItem THEN FlushStep(P)
                 ELSE [st |-> P, err |-> NoError]
      result == flushed.st.result
      missing(field) == Error("missing_top_level_field", 0, field, "", NoRef, <<>>)
  IN
  IF flushed.err # NoError THEN Throw(P, flushed.err)
  ELSE IF Falsy(result.name) THEN Throw(flushed.st, missing("name"))
  ELSE IF Falsy(result.description) THEN Throw(flushed.st, missing("description"))
  ELSE IF Len(result.steps) = 0
    THEN Throw(flushed.st, Error("no_steps", 0, "steps", "", NoRef, <<>>))
  ELSE Continue(flushed.st)

\* variant: the number of steps is tested before the scalar fields
EndOfInputChecks_stepsFirst(P) ==
  LET flushed == IF P.context = "args_item" /\ P.currentItem # NoItem THEN FlushArg(P)
                 ELSE IF P.context = "steps_item" /\ P.currentItem # NoItem THEN FlushStep(P)
                 ELSE [st |-> P, err |-> NoError]
      result == flushed.st.result
      missing(field) == Error("missing_top_level_field", 0, field, "", NoRef, <<>>)
  IN
  IF flushed.err # NoError THEN Throw(P, flushed.err)
  ELSE IF Len(result.steps) = 0
    THEN Throw(flushed.st, Error("no_steps", 0, "steps", "", NoRef, <<>>))
  ELSE IF Falsy(result.name) THEN Throw(flushed.st, missing("name"))
  ELSE IF Falsy(result.description) THEN Throw(flushed.st, missing("description"))
  ELSE IF Falsy(result.version) THEN Throw(flushed.st, missing("version"))
  ELSE Continue(flushed.st)

\* after the loop: flush the item in progress, then the top-level checks
EndOfInputChecks(P) ==
  LET flushed == IF P.context = "args_item" /\ P.currentItem # NoItem THEN FlushArg(P)
                 ELSE IF P.context = "steps_item" /\ P.currentItem # NoItem THEN FlushStep(P)
                 ELSE [st |-> P, err |-> NoError]
      result == flushed.st.result
      missing(field) == Error("missing_top_level_field", 0, field, "", NoRef, <<>>)
  IN
  IF flushed.err # NoError THEN Throw(P, flushed.err)
  ELSE IF Falsy(result.name) THEN Throw(flushed.st, missing("name"))
  ELSE IF Falsy(result.description) THEN Throw(flushed.st, missing("description"))
  ELSE IF Falsy(result.version) THEN Throw(flushed.st, missing("version"))
  ELSE IF Len(result.steps) = 0
    THEN Throw(flushed.st, Error("no_steps", 0, "steps", "", NoRef, <<>>))
  ELSE Continue(flushed.st)

(***************************************************************************)
(* The validator (src/src/validator.js).  A violation is the parts its     *)
(* message is built from: kind, the step prefix (ref, "" for a document    *)
(* level message), the field or vocabulary it is about and the value it    *)
(* quotes.  A list-valued field that is null is the one-element list       *)
(* NullList, one that is absent is UndefinedList; for the lists of args    *)
(* and steps, NullItems.                                                   *)
(***************************************************************************)
NullList == <<null>>
UndefinedList == <<undefined>>
NullItems == <<[null |-> TRUE]>>

validator_AUTONOMY_VALUES == <<"auto", "gate_on_breaking", "gate_always", "skip">>
validator_ERROR_POLICY_VALUES == <<"stop", "retry_once", "gate">>
validator_ESCALATION_TRIGGER_VALUES ==
  <<"postcondition_fail", "verdict_fail", "agreement_breaking", "subagent_error">>
validator_CONDITION_VALUES ==
  <<"spec_exists", "plan_exists", "tasks_exists", "agreement_exists",
    "agreement_pass", "qa_plan_exists", "qa_verdict_pass", "pr_created">>
MODEL_VALUES == <<"opus", "sonnet", "haiku">>

\* Array.prototype.includes
includes(values, v) == v \in Range(values)

\* /^[a-z0-9-]+$/.test(s)
SLUG_PATTERN(s) == s \in SlugWords

Violation(kind, ref, subject, value) ==
  [kind |-> kind, ref |-> ref, subject |-> subject, value |-> value]

\* the message of an enum check ends with (allowed: ${VALUES.join(", ")})
EnumViolation(kind, ref, subject, value, values) ==
  [kind |-> kind, ref |-> ref, subject |-> subject, value |-> value, allowed |-> values]

\* the texts a step's args can hold, as tokens; "{{" and "}}" are tokens
Templates ==
  { <<>>, <<"x">>, <<"{{", "x", "}}">>, <<"{{", "y", "}}">>, <<"{{", " ", "x", " ", "}}">>,
    <<"{{", "}}">>, <<"{{", "x">>,
    <<"{{", "x", "}}", " ", "{{", "y", "}}">>, <<"{{", "y", "}}", " ", "{{", "y", "}}">> }

\* the characters of a string
Tokens(s) == CHOOSE t \in Templates : Str(t) = s

\* index of the first "}}" of tokens at or after i, 0 if none
RECURSIVE Closing(_, _)
Closing(tokens, i) ==
  IF i > Len(tokens) THEN 0
  ELSE IF tokens[i] = "}}" THEN i ELSE Closing(tokens, i + 1)

\* [...s.matchAll(/\{\{([^}]+)\}\}/g)].map(m => m[1].trim())
RECURSIVE matchAll(_, _)
matchAll(tokens, i) ==
  IF i > Len(tokens) THEN <<>>
  ELSE IF tokens[i] # "{{" THEN matchAll(tokens, i + 1)
  ELSE LET j == Closing(tokens, i + 1) IN
       IF j = 0 THEN <<>>
       ELSE IF j = i + 1 THEN matchAll(tokens, j + 1)
       ELSE <<Str(trim(SubSeq(tokens, i + 1, j - 1)))>> \o matchAll(tokens, j + 1)

\* const stepRef = step.id ? `step "${step.id}"` : "step (unknown id)"
stepRef(step) ==
  IF ~Falsy(Prop(step, "id")) THEN "step \"" \o step.id \o "\"" ELSE "step (unknown id)"

\* list-valued property read
ListProp(obj, field) == IF field \in DOMAIN obj THEN obj[field] ELSE UndefinedList

\* mutant: the list is used as it is
Coalesce_asIs(list) == list

\* list ?? []
Coalesce(list) == IF list = NullList \/ list = UndefinedList THEN <<>> ELSE list

\* for (const x of list): iterating null or undefined is a TypeError
NotIterable(list) == list = NullList \/ list = UndefinedList

\* Array.isArray(x) ? x : []
ArrayOrEmpty(items) == IF items = NullItems THEN <<>> ELSE items

When(cond, violation) == IF cond THEN <<violation>> ELSE <<>>

\* value === null || value === undefined || value === ""
MissingValue(v) == v \in {null, undefined, ""}

\* mutant: a list that is empty counts as a list that is missing
TopLevelViolations_emptyIsMissing(playbook) ==
  LET noItems(list) == list = NullItems \/ Len(list) = 0 IN
  When(MissingValue(playbook.name), Violation("missing_top_level_field", "", "name", ""))
  \o When(MissingValue(playbook.description),
          Violation("missing_top_level_field", "", "description", ""))
  \o When(MissingValue(playbook.version),
          Violation("missing_top_level_field", "", "version", ""))
  \o When(noItems(playbook.args), Violation("missing_top_level_field", "", "args", ""))
  \o When(noItems(playbook.steps), Violation("missing_top_level_field", "", "steps", ""))
  \o When(~Falsy(playbook.name) /\ ~SLUG_PATTERN(playbook.name),
          Violation("name_pattern", "", "name", playbook.name))
  \o When(noItems(playbook.steps), Violation("no_steps", "", "steps", ""))

\* top-level required fields, name pattern, steps must be non-empty
TopLevelViolations(playbook) ==
  When(MissingValue(playbook.name), Violation("missing_top_level_field", "", "name", ""))
  \o When(MissingValue(playbook.description),
          Violation("missing_top_level_field", "", "description", ""))
  \o When(MissingValue(playbook.version),
          Violation("missing_top_level_field", "", "version", ""))
  \o When(playbook.args = NullItems, Violation("missing_top_level_field", "", "args", ""))
  \o When(playbook.steps = NullItems, Violation("missing_top_level_field", "", "steps", ""))
  \o When(~Falsy(playbook.name) /\ ~SLUG_PATTERN(playbook.name),
          Violation("name_pattern", "", "name", playbook.name))
  \o When(playbook.steps = NullItems \/ Len(playbook.steps) = 0,
          Violation("no_steps", "", "steps", ""))

\* mutant: only the first argument counts as declared
declaredArgNames_firstOnly(playbook) ==
  LET args == ArrayOrEmpty(playbook.args) IN
  {args[i].name : i \in {j \in DOMAIN args : j = 1 /\ ~Falsy(args[j].name)}}

\* new Set(playbook.args.map((a) => a.name).filter(Boolean))
declaredArgNames(playbook) ==
  LET args == ArrayOrEmpty(playbook.args) IN
  {args[i].name : i \in {j \in DOMAIN args : ~Falsy(args[j].name)}}

\* for (const field of ["id", "command", "autonomy", "error_policy"])
RequiredFieldViolations(step) ==
  LET missing(field) ==
        When(Falsy(Prop(step, field)),
             Violation("step_missing_field", stepRef(step), field, ""))
  IN missing("id") \o missing("command") \o missing("autonomy") \o missing("error_policy")

\* mutant: the uniqueness of the id is not looked at
IdViolations_noUniqueness(step, seenIds) ==
  IF Falsy(Prop(step, "id")) THEN <<>>
  ELSE When(~SLUG_PATTERN(step.id), Violation("id_pattern", stepRef(step), "id", step.id))

\* id pattern, id uniqueness
IdViolations(step, seenIds) ==
  IF Falsy(Prop(step, "id")) THEN <<>>
  ELSE When(~SLUG_PATTERN(step.id), Violation("id_pattern", stepRef(step), "id", step.id))
       \o When(step.id \in seenIds, Violation("id_not_unique", "", "id", step.id))

\* mutant: the model is checked even when the step has none
ScalarEnumViolations_modelRequired(step) ==
  LET check(field, values, kind) ==
        When(~Falsy(Prop(step, field)) /\ ~includes(values, Prop(step, field)),
             EnumViolation(kind, stepRef(step), field, Prop(step, field), values))
  IN check("autonomy", validator_AUTONOMY_VALUES, "invalid_autonomy")
     \o check("error_policy", validator_ERROR_POLICY_VALUES, "invalid_error_policy")
     \o When(~includes(MODEL_VALUES, Prop(step, "model")),
             EnumViolation("invalid_model", stepRef(step), "model", Prop(step, "model"),
                           MODEL_VALUES))

\* mutant: the error policy is not checked
ScalarEnumViolations_noErrorPolicy(step) ==
  LET check(field, values, kind) ==
        When(~Falsy(Prop(step, field)) /\ ~includes(values, Prop(step, field)),
             EnumViolation(kind, stepRef(step), field, Prop(step, field), values))
  IN check("autonomy", validator_AUTONOMY_VALUES, "invalid_autonomy")
     \o check("model", MODEL_VALUES, "invalid_model")

\* autonomy enum, error_policy enum, model enum
ScalarEnumViolations(step) ==
  LET check(field, values, kind) ==
        When(~Falsy(Prop(step, field)) /\ ~includes(values, Prop(step, field)),
             EnumViolation(kind, stepRef(step), field, Prop(step, field), values))
  IN check("autonomy", validator_AUTONOMY_VALUES, "invalid_autonomy")
     \o check("error_policy", validator_ERROR_POLICY_VALUES, "invalid_error_policy")
     \o check("model", MODEL_VALUES, "invalid_model")

\* for (const x of step[field] ?? []) if (!VALUES.includes(x)) violations.push(...)
ListEnumViolations(step, field, values, kind) ==
  LET list == Coalesce(ListProp(step, field))
      bad == SelectSeq(list, LAMBDA x : ~includes(values, x))
  IN [i \in 1..Len(bad) |-> EnumViolation(kind, stepRef(step), field, bad[i], values)]

\* mutant: the loop over the references stops at the first dangling one
ArgRefViolations_firstOnly(step, declared) ==
  IF MissingValue(Prop(step, "args")) THEN <<>>
  ELSE LET refs == matchAll(Tokens(step.args), 1)
           dangling == SelectSeq(refs, LAMBDA argName : argName \notin declared)
       IN IF dangling = <<>> THEN <<>>
          ELSE <<Violation("dangling_arg", stepRef(step), "args", dangling[1])>>

\* {{argname}} referential integrity in step args string
ArgRefViolations(step, declared) ==
  IF MissingValue(Prop(step, "args")) THEN <<>>
  ELSE LET refs == matchAll(Tokens(step.args), 1)
           dangling == SelectSeq(refs, LAMBDA argName : argName \notin declared)
       IN [i \in 1..Len(dangling) |->
             Violation("dangling_arg", stepRef(step), "args", dangling[i])]

\* the body of the loop over the steps
StepViolations(step, seenIds, declared) ==
  RequiredFieldViolations(step)
  \o IdViolations(step, seenIds)
  \o ScalarEnumViolations(step)
  \o ListEnumViolations(step, "escalation_triggers", validator_ESCALATION_TRIGGER_VALUES,
                        "invalid_escalation_trigger")
  \o ListEnumViolations(step, "preconditions", validator_CONDITION_VALUES,
                        "invalid_precondition")
  \o ListEnumViolations(step, "postconditions", validator_CONDITION_VALUES,
                        "invalid_postcondition")
  \o ArgRefViolations(step, declared)

\* a for...of over a value that is not iterable throws
StepThrows(step) ==
  \E field \in {"escalation_triggers", "preconditions", "postconditions"} :
    NotIterable(Coalesce(ListProp(step, field)))

\* mutant: the loop is left after the first step that has a violation
RECURSIVE StepsLoop_stopAtFirst(_, _, _)
StepsLoop_stopAtFirst(steps, seenIds, declared) ==
  IF steps = <<>> THEN [thrown |-> FALSE, violations |-> <<>>]
  ELSE LET step == Head(steps)
           seen == IF Falsy(Prop(step, "id")) THEN seenIds ELSE seenIds \cup {step.id}
           found == StepViolations(step, seenIds, declared)
           rest == IF found = <<>> THEN StepsLoop_stopAtFirst(Tail(steps), seen, declared)
                   ELSE [thrown |-> FALSE, violations |-> <<>>]
       IN IF StepThrows(step) \/ rest.thrown
            THEN [thrown |-> TRUE, violations |-> <<>>]
            ELSE [thrown |-> FALSE, violations |-> found \o rest.violations]

\* for (const step of steps), with seenIds as accumulated so far
RECURSIVE StepsLoop(_, _, _)
StepsLoop(steps, seenIds, declared) ==
  IF steps = <<>> THEN [thrown |-> FALSE, violations |-> <<>>]
  ELSE LET step == Head(steps)
           seen == IF Falsy(Prop(step, "id")) THEN seenIds ELSE seenIds \cup {step.id}
           rest == StepsLoop(Tail(steps), seen, declared)
       IN IF StepThrows(step) \/ rest.thrown
            THEN [thrown |-> TRUE, violations |-> <<>>]
            ELSE [thrown |-> FALSE,
                  violations |-> StepViolations(step, seenIds, declared) \o rest.violations]

_validatePlaybook(playbook) ==
  LET loop == StepsLoop(ArrayOrEmpty(playbook.steps), {}, declaredArgNames(playbook)) IN
  IF loop.thrown THEN loop
  ELSE [thrown |-> FALSE, violations |-> TopLevelViolations(playbook) \o loop.violations]

(***************************************************************************)
(* Input lines.  KV and LI write a "key: value" line and a "- rest" line   *)
(* at an indentation; Palette is the set of physical lines a text is made  *)
(* of.                                                                     *)
(***************************************************************************)
KV(n, key, raw) == Spaces(n) \o <<key, ":">> \o (IF raw = <<>> THEN <<>> ELSE <<" ">> \o raw)
LI(n, rest) == Spaces(n) \o <<"-", " ">> \o rest
Quoted(raw) == <<"\"">> \o raw \o <<"\"">>

TopLines ==
  { KV(0, "name", <<"m">>), KV(0, "name", <<"Bad">>), KV(0, "name", Quoted(<<>>)),
    KV(0, "description", <<"d">>), KV(0, "version", Quoted(<<"1.0">>)),
    KV(0, "args", <<"[", "]">>), KV(0, "args", <<>>), KV(0, "steps", <<>>),
    KV(0, "extra", <<"x">>), KV(2, "name", <<"m">>), <<"x">> }

BlankLines == { <<" ", " ", "#", " ", "x">> }

ArgLines ==
  { LI(2, KV(0, "name", <<"x">>)), KV(4, "description", <<"d">>),
    KV(4, "required", <<"true">>), KV(4, "required", <<"yes">>),
    KV(4, "extra", <<"x">>) }

StepLines ==
  { LI(2, KV(0, "id", <<"a">>)), LI(2, <<>>),
    KV(4, "id", <<"Bad">>), KV(4, "command", <<"/c">>),
    KV(4, "autonomy", <<"auto">>), KV(4, "autonomy", <<"nope">>),
    KV(4, "error_policy", Quoted(<<"stop">>)), KV(4, "error_policy", <<"Stop">>),
    KV(4, "model", <<"sonnet">>), KV(4, "model", Quoted(<<"Sonnet">>)),
    KV(4, "preconditions", <<>>), LI(6, <<"spec_exists">>), LI(6, <<"nope">>),
    KV(4, "escalation_triggers", <<"[", "verdict_fail", ",", " ", "nope", "]">>),
    KV(4, "postconditions", <<"[", "pr_created">>) }

Palette == TopLines \cup BlankLines \cup ArgLines \cup StepLines

(***************************************************************************)
(* State: the local variables of parsePlaybook.  line is the physical line *)
(* at lineIdx once it has been read and is still needed (a rewound line,   *)
(* the line of a throw); pc is "scan" at the loop head, "rewind" when the  *)
(* line at lineIdx is to be processed again, "done" after return and       *)
(* "error" after a throw (err is the error thrown).  playbook is the       *)
(* document handed to the validator and violations the list it returned:   *)
(* pc is then "checked" ("built" before the call for a document that was   *)
(* not parsed but built by hand).  file is what the check command is given *)
(* (the path argument, whether a file is there, and its content), stdout   *)
(* what it has written and exitCode the code it exited with.               *)
(***************************************************************************)
VARIABLES lineIdx, line, pc, context, currentItem, listField, listIndent,
          itemDashIndent, result, err, playbook, violations, file, lines, stdout, exitCode,
          sessionsDir, calls, request, answer

\* the sessions directory, the createSession calls under way, the arguments of
\* the last call of session.js and what the last read returned
sessionVars == <<sessionsDir, calls, request, answer>>

vars == <<lineIdx, line, pc, context, currentItem, listField, listIndent,
          itemDashIndent, result, err, playbook, violations, file, lines, stdout, exitCode,
          sessionsDir, calls, request, answer>>

\* no session command is running
NoSessions ==
  /\ sessionsDir = <<>>
  /\ calls = <<>>
  /\ request = <<>>
  /\ answer = <<>>

\* no command is running: nothing was given, written or exited
NoFile == [path |-> "", exists |-> FALSE, content |-> <<>>]
NoExit == -1

Locals ==
  [context |-> context, currentItem |-> currentItem, listField |-> listField,
   listIndent |-> listIndent, itemDashIndent |-> itemDashIndent, result |-> result]

InitialLocals ==
  [context |-> "top", currentItem |-> NoItem, listField |-> null,
   listIndent |-> NoIndent, itemDashIndent |-> NoIndent, result |-> emptyResult]

Init ==
  /\ lineIdx = 0
  /\ line = <<>>
  /\ pc = "scan"
  /\ context = InitialLocals.context
  /\ currentItem = InitialLocals.currentItem
  /\ listField = InitialLocals.listField
  /\ listIndent = InitialLocals.listIndent
  /\ itemDashIndent = InitialLocals.itemDashIndent
  /\ result = InitialLocals.result
  /\ err = NoError
  /\ playbook = NoItem
  /\ violations = <<>>
  /\ file = NoFile
  /\ lines = <<>>
  /\ stdout = <<>>
  /\ exitCode = NoExit
  /\ NoSessions

\* the body of the loop for a line that is not skipped: the branch of the context
Iteration(P, l, lineNum) ==
  IF P.context = "top" THEN TopContext(P, l, lineNum)
  ELSE IF P.context = "args" THEN ArgsContext(P, l, lineNum)
  ELSE IF P.context = "args_item" THEN ArgsItemContext(P, l, lineNum)
  ELSE IF P.context = "steps" THEN StepsContext(P, l, lineNum)
  ELSE StepsItemContext(P, l, lineNum)

\* variant: only blank lines are skipped, comments are read as content
Skipped_blankOnly(l) == trim(l) = <<>>

Skipped(l) == IF trim(l) = <<>> THEN TRUE ELSE Head(trim(l)) = "#"

\* content.split("\n"); a text is its characters, the end of line one of them
RECURSIVE split(_)
split(content) ==
  IF \A i \in DOMAIN content : content[i] # "\n" THEN <<content>>
  ELSE LET n == CHOOSE i \in DOMAIN content :
                  content[i] = "\n" /\ \A j \in 1..i - 1 : content[j] # "\n"
       IN <<SubSeq(content, 1, n - 1)>> \o split(SubSeq(content, n + 1, Len(content)))

\* mutant: the carriage return is left on the line
stripCR_asIs(l) == l

\* l.replace(/\r$/, "")
stripCR(l) == IF l # <<>> /\ l[Len(l)] = "\r" THEN SubSeq(l, 1, Len(l) - 1) ELSE l

\* the for loop of parsePlaybook from lineIdx on, and what follows it; out is
\* what the body of the loop did with the line at idx
\* const rawLines = content.split("\n"); const lines = rawLines.map(...)
LinesOf(content) ==
  LET rawLines == split(content)
  IN [i \in DOMAIN rawLines |-> stripCR(rawLines[i])]

\* the line at lineIdx: the rewound line, or the next line of the text (of
\* the file when there is one, any line otherwise)
LineAtIdx ==
  IF pc = "rewind" THEN {line}
  ELSE IF pc # "scan" THEN {}
  ELSE IF file.exists
    THEN IF lineIdx < Len(lines) THEN {lines[lineIdx + 1]} ELSE {}
  ELSE IF lineIdx < MaxLines THEN Palette
  ELSE {}

RECURSIVE Loop(_, _, _)
RECURSIVE AfterIteration(_, _, _)
AfterIteration(out, ls, idx) ==
  IF out.ctl = "throw" THEN out
  ELSE IF out.ctl = "rewind" THEN Loop(out.st, ls, idx)
  ELSE Loop(out.st, ls, idx + 1)

Loop(P, ls, idx) ==
  IF idx >= Len(ls) THEN EndOfInputChecks(P)
  ELSE IF Skipped(ls[idx + 1]) THEN Loop(P, ls, idx + 1)
  ELSE AfterIteration(Iteration(P, ls[idx + 1], idx + 1), ls, idx)

\* parsePlaybook as a function of the text: the document returned or the error thrown
parsePlaybook(content) ==
  LET rawLines == split(content)
      ls == [i \in DOMAIN rawLines |-> stripCR(rawLines[i])]
  IN Loop(InitialLocals, ls, 0)

\* the end of one iteration of the loop; a throw unwinds the frame, and the
\* locals are gone with it
Surviving(out) == IF out.ctl = "throw" THEN InitialLocals ELSE out.st

InstallLocals(st) ==
  /\ context' = st.context
  /\ currentItem' = st.currentItem
  /\ listField' = st.listField
  /\ listIndent' = st.listIndent
  /\ itemDashIndent' = st.itemDashIndent
  /\ result' = st.result

Install(out, l) ==
  /\ InstallLocals(Surviving(out))
  /\ err' = out.err
  /\ pc' = IF out.ctl = "continue" THEN "scan"
           ELSE IF out.ctl = "rewind" THEN "rewind" ELSE "error"
  /\ lineIdx' = IF out.ctl = "continue" THEN lineIdx + 1 ELSE lineIdx
  /\ line' = IF out.ctl = "continue" THEN <<>> ELSE l
  /\ UNCHANGED <<playbook, violations, file, lines, sessionVars, stdout, exitCode>>

SkipLine ==
  \E l \in LineAtIdx :
    /\ Skipped(l)
    /\ lineIdx' = lineIdx + 1
    /\ UNCHANGED <<line, pc, context, currentItem, listField, listIndent,
                   itemDashIndent, result, err, playbook, violations, file, lines, sessionVars, stdout,
                   exitCode>>

TopLine ==
  /\ context = "top"
  /\ \E l \in LineAtIdx :
       /\ ~Skipped(l)
       /\ \E out \in {TopContext(Locals, l, lineIdx + 1)} : Install(out, l)

ArgsLine ==
  /\ context = "args"
  /\ \E l \in LineAtIdx :
       /\ ~Skipped(l)
       /\ \E out \in {ArgsContext(Locals, l, lineIdx + 1)} : Install(out, l)

ArgsItemLine ==
  /\ context = "args_item"
  /\ \E l \in LineAtIdx :
       /\ ~Skipped(l)
       /\ \E out \in {ArgsItemContext(Locals, l, lineIdx + 1)} : Install(out, l)

StepsLine ==
  /\ context = "steps"
  /\ \E l \in LineAtIdx :
       /\ ~Skipped(l)
       /\ \E out \in {StepsContext(Locals, l, lineIdx + 1)} : Install(out, l)

StepsItemLine ==
  /\ context = "steps_item"
  /\ \E l \in LineAtIdx :
       /\ ~Skipped(l)
       /\ \E out \in {StepsItemContext(Locals, l, lineIdx + 1)} : Install(out, l)

\* lineIdx = lines.length: the loop ends; split("\n") gives at least one line
Ended(out) ==
  /\ InstallLocals(Surviving(out))
  /\ err' = out.err
  /\ pc' = IF out.ctl = "throw" THEN "error" ELSE "done"

EndOfInput ==
  /\ pc = "scan"
  /\ lineIdx >= 1
  /\ file.exists => lineIdx = Len(lines)
  /\ Ended(EndOfInputChecks(Locals))
  /\ UNCHANGED <<lineIdx, line, playbook, violations, file, lines, sessionVars, stdout, exitCode>>

\* check: the document parsePlaybook returned is handed to _validatePlaybook
Checked(outcome) ==
  /\ violations' = outcome.violations
  /\ pc' = IF outcome.thrown THEN "threw" ELSE "checked"

Check ==
  /\ pc = "done"
  /\ playbook' = result
  /\ Checked(_validatePlaybook(result))
  /\ UNCHANGED <<lineIdx, line, context, currentItem, listField, listIndent,
                 itemDashIndent, result, err, file, lines, sessionVars, stdout, exitCode>>

Next ==
  \/ SkipLine
  \/ TopLine
  \/ ArgsLine
  \/ ArgsItemLine
  \/ StepsLine
  \/ StepsItemLine
  \/ EndOfInput
  \/ Check

Spec == Init /\ [][Next]_vars

(***************************************************************************)
(* The validator on documents built by hand.  _validatePlaybook is a pure  *)
(* function of its argument, so its inputs are drawn from a bounded set of *)
(* documents and the actions apply it: once, a second time on the same     *)
(* object, and on the document with one more declared argument.            *)
(***************************************************************************)
MaxSteps == 3

Step(id, args) ==
  [id |-> id, command |-> "/c", autonomy |-> "auto", error_policy |-> "stop", args |-> args,
   preconditions |-> <<>>, postconditions |-> <<>>, escalation_triggers |-> <<>>,
   parallel_group |-> null, model |-> null]

\* a step with every kind of defect, its lists null, empty or holding unknown tags
DefectiveStep ==
  [id |-> null, command |-> "", autonomy |-> "bogus", error_policy |-> null,
   args |-> "{{y}} {{y}}", preconditions |-> NullList,
   postconditions |-> <<"nope", "spec_exists", "nope">>,
   escalation_triggers |-> <<"zzz">>, parallel_group |-> null, model |-> "gpt"]

\* a step object holding the required keys only
SparseStep == [id |-> "Bad", command |-> "/c", autonomy |-> "skip", error_policy |-> "gate"]

StepVariants ==
  { Step("a", ""), Step("a", "{{x}}"),
    [Step("b", "{{x}} {{y}}") EXCEPT !.error_policy = "Stop", !.model = "",
                                     !.preconditions = <<"gate", "pr_created">>],
    [Step("g", "{{ x }}") EXCEPT !.model = "opus"], DefectiveStep, SparseStep }

StepLists ==
  UNION { [1..n -> StepVariants] : n \in 0..MaxSteps }

Argument(name) == [name |-> name, description |-> "about " \o name, required |-> TRUE]

Header(name, description, version) ==
  [name |-> name, description |-> description, version |-> version]

\* the top-level fields: sound ones with each list of arguments, and defective ones
Tops ==
  { [header |-> Header("m", "d", "1.0"), args |-> a] :
      a \in { <<>>, <<Argument("x")>>, <<Argument("y"), Argument("x")>>,
              <<[name |-> null, description |-> null, required |-> FALSE]>>, NullItems } }
  \cup { [header |-> Header("Bad", "d", "1.0"), args |-> <<>>],
         [header |-> Header("", "d", null), args |-> <<Argument("x")>>],
         [header |-> Header(null, "", "1.0"), args |-> NullItems] }

Document(top, steps) ==
  [name |-> top.header.name, description |-> top.header.description,
   version |-> top.header.version, args |-> top.args, steps |-> steps]

Documents ==
  { Document(top, steps) : top \in Tops, steps \in StepLists \cup {NullItems} }

VInit ==
  /\ lineIdx = 0
  /\ line = <<>>
  /\ pc = "built"
  /\ context = InitialLocals.context
  /\ currentItem = InitialLocals.currentItem
  /\ listField = InitialLocals.listField
  /\ listIndent = InitialLocals.listIndent
  /\ itemDashIndent = InitialLocals.itemDashIndent
  /\ result = InitialLocals.result
  /\ err = NoError
  /\ playbook \in Documents
  /\ violations = <<>>
  /\ file = NoFile
  /\ lines = <<>>
  /\ stdout = <<>>
  /\ exitCode = NoExit
  /\ NoSessions

\* mutant: the optional keys a step lacks are filled in
AfterValidation_fillDefaults(document) ==
  IF document.steps = NullItems THEN document
  ELSE [document EXCEPT !.steps =
          [i \in DOMAIN @ |-> IF "args" \in DOMAIN @[i] THEN @[i] ELSE Step(@[i].id, "")]]

\* the argument object after the call: no statement of _validatePlaybook
\* assigns to it, to its args or to its steps
AfterValidation(document) == document

Validated(document, reached) ==
  /\ LET outcome == _validatePlaybook(document) IN
     /\ violations' = outcome.violations
     /\ pc' = IF outcome.thrown THEN "threw" ELSE reached
  /\ playbook' = AfterValidation(document)
  /\ UNCHANGED <<lineIdx, line, context, currentItem, listField, listIndent,
                 itemDashIndent, result, err, file, lines, sessionVars, stdout, exitCode>>

\* const violations = _validatePlaybook(playbook)
Validate ==
  /\ pc = "built"
  /\ Validated(playbook, "validated")

\* a second call on the same object
ValidateAgain ==
  /\ pc = "validated"
  /\ Validated(playbook, "revalidated")

\* playbook.args.push(argument) or unshift(argument), then a call on the new document
DeclareArgument(name, atEnd) ==
  /\ pc = "validated"
  /\ playbook.args # NullItems
  /\ name \notin declaredArgNames(playbook)
  /\ LET args == IF atEnd THEN Append(playbook.args, Argument(name))
                 ELSE <<Argument(name)>> \o playbook.args
     IN Validated([playbook EXCEPT !.args = args], "declared")

VNext ==
  \/ Validate
  \/ ValidateAgain
  \/ \E name \in {"x", "y"}, atEnd \in BOOLEAN : DeclareArgument(name, atEnd)

VSpec == VInit /\ [][VNext]_vars

(***************************************************************************)
(* The check command (validator.js, check).  The files it is given hold a  *)
(* complete playbook with up to MaxEdits of its lines deleted or replaced, *)
(* written with either line-ending convention.                             *)
(***************************************************************************)
MaxEdits == 2

BaseLines ==
  << <<"#", " ", "x">>,
     KV(0, "name", <<"m">>), KV(0, "description", <<"d">>),
     <<>>,
     KV(0, "version", Quoted(<<"1.0">>)),
     KV(0, "args", <<>>),
     LI(2, KV(0, "name", <<"x">>)),
     Spaces(4) \o <<"#", " ", "x">>,
     KV(4, "description", <<"d">>), KV(4, "required", <<"true">>),
     KV(0, "steps", <<>>),
     LI(2, KV(0, "id", <<"a">>)), KV(4, "command", <<"/c">>),
     Spaces(2),
     KV(4, "autonomy", <<"auto">>), KV(4, "error_policy", Quoted(<<"stop">>)),
     KV(4, "preconditions", <<>>), LI(6, <<"spec_exists">>),
     <<"#", "x">>,
     LI(6, <<"pr_created">>) >>

\* what a line can be replaced by: nothing, or a line that is wrong there
Replacements(i) ==
  IF i = 2 THEN {<<>>, <<KV(0, "name", <<"Bad">>)>>}
  ELSE IF i \in {7, 12, 20} THEN {<<>>, <<KV(0, "description", <<"d">>)>>}
  ELSE IF i = 14 THEN {<<>>, <<KV(4, "args", Quoted(<<"{{", "y", "}}">>))>>}
  ELSE {<<>>, <<KV(4, "autonomy", <<"nope">>)>>}

\* the texts made of the lines from i on with at most k of them edited
RECURSIVE TextsFrom(_, _)
TextsFrom(i, k) ==
  IF i > Len(BaseLines) THEN {<<>>}
  ELSE {<<BaseLines[i]>> \o t : t \in TextsFrom(i + 1, k)}
       \cup (IF k = 0 THEN {}
             ELSE {r \o t : r \in Replacements(i), t \in TextsFrom(i + 1, k - 1)})

\* the texts with at most k edits, as sequences of lines
TextsEdited(k) == TextsFrom(1, k)

EditedTexts == TextsEdited(MaxEdits)

RECURSIVE Flatten(_)
Flatten(seqs) == IF seqs = <<>> THEN <<>> ELSE Head(seqs) \o Flatten(Tail(seqs))

LF == <<"\n">>
CRLF == <<"\r", "\n">>

\* the characters of a text whose lines each end with eol
TextOf(ls, eol) == Flatten([i \in DOMAIN ls |-> ls[i] \o eol])

Contents ==
  { TextOf(t, eol) : t \in EditedTexts, eol \in {LF, CRLF} }

Files ==
  { [path |-> "", exists |-> FALSE, content |-> <<>>],
    [path |-> "p.yaml", exists |-> FALSE, content |-> <<>>] }
  \cup { [path |-> "p.yaml", exists |-> TRUE, content |-> c] : c \in Contents }

\* the parser reading the lines of a text, then the validator; the loop is
\* sequential code: as long as a step can be taken, one is taken
LiveInit ==
  /\ lineIdx = 0
  /\ line = <<>>
  /\ pc = "scan"
  /\ context = InitialLocals.context
  /\ currentItem = InitialLocals.currentItem
  /\ listField = InitialLocals.listField
  /\ listIndent = InitialLocals.listIndent
  /\ itemDashIndent = InitialLocals.itemDashIndent
  /\ result = InitialLocals.result
  /\ err = NoError
  /\ playbook = NoItem
  /\ violations = <<>>
  /\ file \in { [path |-> "p.yaml", exists |-> TRUE, content |-> TextOf(t, LF)] :
                   t \in TextsEdited(1) }
  /\ lines = LinesOf(file.content)
  /\ stdout = <<>>
  /\ exitCode = NoExit
  /\ NoSessions

LiveSpec == LiveInit /\ [][Next]_vars /\ WF_vars(Next)

CheckInit ==
  /\ lineIdx = 0
  /\ line = <<>>
  /\ pc = "start"
  /\ context = InitialLocals.context
  /\ currentItem = InitialLocals.currentItem
  /\ listField = InitialLocals.listField
  /\ listIndent = InitialLocals.listIndent
  /\ itemDashIndent = InitialLocals.itemDashIndent
  /\ result = InitialLocals.result
  /\ err = NoError
  /\ playbook = NoItem
  /\ violations = <<>>
  /\ file \in Files
  /\ lines = <<>>
  /\ stdout = <<>>
  /\ exitCode = NoExit
  /\ NoSessions

\* what is written to stdout, line by line
Output(kind, path, count) == [kind |-> kind, path |-> path, count |-> count]
Bullet(message) == [kind |-> "bullet", message |-> message]

\* `parse error: ${err.message}`
ParseError(e) == [kind |-> "parse_error", message |-> e]

\* mutant: only the first violation is listed
_printFailure_firstOnly(filePath, list) ==
  <<Output("failure", filePath, Len(list)), Bullet(list[1])>>

_printFailure(filePath, list) ==
  <<Output("failure", filePath, Len(list))>> \o [i \in DOMAIN list |-> Bullet(list[i])]

parserLocals == <<lineIdx, line, context, currentItem, listField, listIndent, itemDashIndent>>

\* no file argument: usage, exit 1
Usage ==
  /\ pc = "start"
  /\ file.path = ""
  /\ stdout' = <<Output("usage", "", 0)>>
  /\ exitCode' = 1
  /\ pc' = "exited"
  /\ UNCHANGED <<parserLocals, result, err, playbook, violations, file, lines, sessionVars>>

\* the file is not there: exit 1
CannotRead ==
  /\ pc = "start"
  /\ file.path # ""
  /\ ~file.exists
  /\ stdout' = <<Output("cannot_read", file.path, 0)>>
  /\ exitCode' = 1
  /\ pc' = "exited"
  /\ UNCHANGED <<parserLocals, result, err, playbook, violations, file, lines, sessionVars>>

\* variant: the exception is recorded and the command goes on to validate
\* what the parser had built
Parsed_validateAnyway(out) ==
  /\ err' = out.err
  /\ result' = out.st.result
  /\ pc' = "parsed"
  /\ UNCHANGED <<stdout, exitCode>>

\* catch (err) { _printFailure(filePath, [`parse error: ${err.message}`]); exit(1) }
Parsed(out) ==
  IF out.ctl = "throw"
    THEN /\ err' = out.err
         /\ stdout' = _printFailure(file.path, <<ParseError(out.err)>>)
         /\ exitCode' = 1
         /\ pc' = "exited"
         /\ UNCHANGED result
    ELSE /\ result' = out.st.result
         /\ pc' = "parsed"
         /\ UNCHANGED <<err, stdout, exitCode>>

\* try { playbook = parsePlaybook(content) }
ParseFile ==
  /\ pc = "start"
  /\ file.path # ""
  /\ file.exists
  /\ Parsed(parsePlaybook(file.content))
  /\ UNCHANGED <<parserLocals, playbook, violations, file, lines, sessionVars>>

\* const violations = _validatePlaybook(playbook, filePath)
CollectViolations ==
  /\ pc = "parsed"
  /\ playbook' = result
  /\ LET outcome == _validatePlaybook(result) IN
     /\ violations' = outcome.violations
     /\ pc' = IF outcome.thrown THEN "threw" ELSE "collected"
  /\ UNCHANGED <<parserLocals, result, err, file, lines, sessionVars, stdout, exitCode>>

\* violations.length === 0: the file is valid, exit 0
ReportValid ==
  /\ pc = "collected"
  /\ Len(violations) = 0
  /\ stdout' = <<Output("valid", file.path, 0)>>
  /\ exitCode' = 0
  /\ pc' = "exited"
  /\ UNCHANGED <<parserLocals, result, err, playbook, violations, file, lines, sessionVars>>

\* else _printFailure(filePath, violations), exit 1
ReportViolations ==
  /\ pc = "collected"
  /\ Len(violations) # 0
  /\ stdout' = _printFailure(file.path, violations)
  /\ exitCode' = 1
  /\ pc' = "exited"
  /\ UNCHANGED <<parserLocals, result, err, playbook, violations, file, lines, sessionVars>>

CheckNext ==
  \/ Usage
  \/ CannotRead
  \/ ParseFile
  \/ CollectViolations
  \/ ReportValid
  \/ ReportViolations

CheckSpec == CheckInit /\ [][CheckNext]_vars

(***************************************************************************)
(* Properties.  The vocabularies and field sets below are those of the     *)
(* specification (sections 3 and 6), written independently of the parser's *)
(* own tables.  Iteration is one pass of the loop body on a line that is   *)
(* not skipped, used to ask, in a reachable state, what the parser does    *)
(* with each possible next line.                                           *)
(***************************************************************************)
Scanning == pc = "scan" /\ lineIdx < MaxLines

AutonomySet == {"auto", "gate_on_breaking", "gate_always", "skip"}
ErrorPolicySet == {"stop", "retry_once", "gate"}
TriggerSet == {"postcondition_fail", "verdict_fail", "agreement_breaking", "subagent_error"}
ConditionSet ==
  {"spec_exists", "plan_exists", "tasks_exists", "agreement_exists", "agreement_pass",
   "qa_plan_exists", "qa_verdict_pass", "pr_created"}
ModelSet == {"opus", "sonnet", "haiku"}

NonEmpty(v) == v \notin {null, undefined, ""}

ValidArgument(a) ==
  /\ NonEmpty(a.name)
  /\ NonEmpty(a.description)
  /\ a.required \in {JSBool(TRUE), JSBool(FALSE)}

CompleteStep(st) ==
  /\ NonEmpty(st.id)
  /\ NonEmpty(st.command)
  /\ NonEmpty(st.autonomy)
  /\ NonEmpty(st.error_policy)

ValidStep(st) ==
  /\ CompleteStep(st)
  /\ st.id \in SlugWords
  /\ st.autonomy \in AutonomySet
  /\ st.error_policy \in ErrorPolicySet
  /\ \A i \in DOMAIN st.preconditions : st.preconditions[i] \in ConditionSet
  /\ \A i \in DOMAIN st.postconditions : st.postconditions[i] \in ConditionSet
  /\ \A i \in DOMAIN st.escalation_triggers : st.escalation_triggers[i] \in TriggerSet

\* C1: whenever parsePlaybook returns, the returned document is structurally
\* valid: name, description and version are non-empty, there is at least one
\* step, every step has a slug id, a command, an autonomy and an error_policy
\* of the closed sets and only vocabulary members in its three lists, and every
\* argument has a name, a description and a boolean required.
C1_ReturnedDocumentValid ==
  pc = "done" =>
    /\ NonEmpty(result.name)
    /\ NonEmpty(result.description)
    /\ NonEmpty(result.version)
    /\ Len(result.steps) >= 1
    /\ \A i \in DOMAIN result.steps : ValidStep(result.steps[i])
    /\ \A i \in DOMAIN result.args : ValidArgument(result.args[i])

C1_Witness ==
  /\ pc = "done"
  /\ Len(result.args) >= 1
  /\ Len(result.steps) >= 1

FlushingLines == { LI(2, KV(0, "id", <<"a">>)), LI(2, <<>>), KV(0, "name", <<"m">>) }

NameLines ==
  { KV(0, "name", <<"m">>), KV(0, "name", <<"Bad">>), KV(0, "name", Quoted(<<"Bad">>)),
    KV(0, "name", <<"1.0">>) }

Written(v) == { <<v>>, Quoted(<<v>>), <<"'", v, "'">> }

ModelLines == { KV(4, "model", raw) : raw \in UNION { Written(v) : v \in ModelSet } }
EmptyModelLines == { KV(4, "model", Quoted(<<>>)), KV(4, "model", <<"'", "'">>) }

\* C4 as claimed: every step has model = null when the field is absent or
\* written as the empty string, and the given value when it is one of opus,
\* sonnet, haiku, quoted or not: a model line of a step is accepted and sets
\* the field, and a returned step has a model that is null or one of the three.
C4_ModelFieldParsed ==
  /\ (Scanning /\ context = "steps_item") =>
       /\ \A l \in ModelLines :
            LET out == Iteration(Locals, l, lineIdx + 1) IN
              /\ out.ctl = "continue"
              /\ Prop(out.st.currentItem, "model") = Str(unquote(matchKeyValue(l).rawValue))
       /\ \A l \in EmptyModelLines :
            LET out == Iteration(Locals, l, lineIdx + 1) IN
              /\ out.ctl = "continue"
              /\ Prop(out.st.currentItem, "model") = null
  /\ pc = "done" =>
       \A i \in DOMAIN result.steps : Prop(result.steps[i], "model") \in {null} \cup ModelSet

BadModelLines ==
  { KV(4, "model", raw) : raw \in UNION { Written(v) : v \in {"Sonnet", "nope", "auto"} } }

\* C5 as claimed: a model value that is non-empty and outside {opus, sonnet,
\* haiku}, compared case-sensitively, makes the parser throw an error that names
\* that value as an invalid model.
C5_InvalidModelNamed ==
  (Scanning /\ context = "steps_item") =>
    \A l \in BadModelLines :
      LET out == Iteration(Locals, l, lineIdx + 1) IN
        /\ out.ctl = "throw"
        /\ out.err.subject = "model"
        /\ out.err.value = Str(unquote(matchKeyValue(l).rawValue))
        /\ Range(out.err.allowed) = ModelSet

ScalarEnumFields == {"autonomy", "error_policy"}
ListEnumFields == {"preconditions", "postconditions", "escalation_triggers"}

Vocabulary(field) ==
  IF field = "autonomy" THEN AutonomySet
  ELSE IF field = "error_policy" THEN ErrorPolicySet
  ELSE IF field = "escalation_triggers" THEN TriggerSet
  ELSE ConditionSet

\* values tried for a field: its vocabulary, and values outside it (members of
\* the other vocabularies, a case variant, an unknown word)
Outsiders == {"nope", "Stop", "gate", "pr_created"}
EnumCandidates(field) == Vocabulary(field) \cup (Outsiders \ Vocabulary(field))

\* one member of each vocabulary and one value of none, for the quoted forms
AMember(field) ==
  IF field = "autonomy" THEN "gate_on_breaking"
  ELSE IF field = "error_policy" THEN "retry_once"
  ELSE IF field = "escalation_triggers" THEN "subagent_error"
  ELSE "qa_verdict_pass"
QuotedCandidates(field) == {AMember(field), "nope"}

\* the error of a rejected enum value: at line n, with the value and the allowed set
RejectsEnum(out, field, v, n) ==
  /\ out.ctl = "throw"
  /\ out.err.line = n
  /\ out.err.value = v
  /\ Range(out.err.allowed) = Vocabulary(field)

\* an enum line: accepted with the field set to stored when v is in the
\* vocabulary, rejected at line n otherwise
EnumLineOutcome(out, field, v, stored, n) ==
  IF v \in Vocabulary(field)
    THEN out.ctl = "continue" /\ out.st.currentItem[field] = stored
    ELSE RejectsEnum(out, field, v, n)

EnumErrorKinds ==
  {"invalid_autonomy", "invalid_error_policy", "invalid_condition", "invalid_escalation_trigger"}

\* C6: for autonomy, error_policy and every member of preconditions,
\* postconditions and escalation_triggers, in inline or block form, a value
\* outside the field's vocabulary makes the parser throw at the line where it
\* is assigned, with an error that holds the value and lists the allowed set;
\* every value inside the vocabulary is accepted and stored.
C6_EnumValuesChecked ==
  /\ (Scanning /\ context = "steps_item") =>
       /\ \A f \in ScalarEnumFields :
            /\ \A v \in EnumCandidates(f) :
                 EnumLineOutcome(Iteration(Locals, KV(4, f, <<v>>), lineIdx + 1),
                                 f, v, v, lineIdx + 1)
            /\ \A v \in QuotedCandidates(f) : \A raw \in Written(v) :
                 EnumLineOutcome(Iteration(Locals, KV(4, f, raw), lineIdx + 1),
                                 f, v, v, lineIdx + 1)
       /\ \A f \in ListEnumFields :
            /\ \A v \in EnumCandidates(f) :
                 EnumLineOutcome(Iteration(Locals, KV(4, f, <<"[", v, "]">>), lineIdx + 1),
                                 f, v, <<v>>, lineIdx + 1)
            /\ \A v \in QuotedCandidates(f) :
                 EnumLineOutcome(Iteration(Locals,
                                           KV(4, f, <<"[", AMember(f), ",", " ">>
                                                    \o Quoted(<<v>>) \o <<"]">>),
                                           lineIdx + 1),
                                 f, v, <<AMember(f), v>>, lineIdx + 1)
            /\ LET opened == Iteration(Locals, KV(4, f, <<>>), lineIdx + 1) IN
                 /\ opened.ctl = "continue"
                 /\ \A v \in EnumCandidates(f) :
                      EnumLineOutcome(Iteration(opened.st, LI(6, <<v>>), lineIdx + 2),
                                      f, v, Append(currentItem[f], v), lineIdx + 2)
  /\ (Scanning /\ context = "steps") =>
       /\ \A f \in ScalarEnumFields : \A v \in EnumCandidates(f) :
            EnumLineOutcome(Iteration(Locals, LI(2, KV(0, f, <<v>>)), lineIdx + 1),
                            f, v, v, lineIdx + 1)
       /\ \A f \in ListEnumFields : \A v \in EnumCandidates(f) :
            EnumLineOutcome(Iteration(Locals, LI(2, KV(0, f, <<"[", v, "]">>)), lineIdx + 1),
                            f, v, <<v>>, lineIdx + 1)
  /\ (pc = "error" /\ err.kind \in EnumErrorKinds) =>
       /\ err.line = lineIdx + 1
       /\ err.value \notin Range(err.allowed)
       /\ Range(err.allowed) \in {AutonomySet, ErrorPolicySet, TriggerSet, ConditionSet}

C6_Witness ==
  /\ pc = "error"
  /\ err.kind = "invalid_escalation_trigger"
  /\ err.value = "nope"
  /\ line = KV(4, "escalation_triggers", <<"[", "verdict_fail", ",", " ", "nope", "]">>)

RequiredStepFields == {"id", "command", "autonomy", "error_policy"}

FirstMissing(st) ==
  IF ~NonEmpty(st.id) THEN "id"
  ELSE IF ~NonEmpty(st.command) THEN "command"
  ELSE IF ~NonEmpty(st.autonomy) THEN "autonomy"
  ELSE "error_policy"

\* the step as an error identifies it: by its id, else by its 1-based position
Identity(st, position) ==
  IF NonEmpty(st.id) THEN [id |-> st.id, index |-> 0] ELSE [id |-> "", index |-> position]

\* out is a throw whose error names a required field st lacks and identifies st
NamesMissingField(out, st, position) ==
  /\ out.ctl = "throw"
  /\ out.err.subject \in RequiredStepFields
  /\ ~NonEmpty(st[out.err.subject])
  /\ out.err.ref = Identity(st, position)

\* every way the step in progress P.currentItem comes to its end
EveryFlushNamesMissing(P, lineNum) ==
  /\ \A l \in FlushingLines :
       NamesMissingField(Iteration(P, l, lineNum), P.currentItem, Len(P.result.steps) + 1)
  /\ NamesMissingField(EndOfInputChecks(P), P.currentItem, Len(P.result.steps) + 1)

EmptyField(f) == KV(4, f, Quoted(<<>>))

\* C7 as claimed: a step that omits or leaves empty id, command, autonomy or
\* error_policy makes the parser throw an error that names the missing field
\* and identifies the step by its id when present, by its 1-based position
\* otherwise.
C7_OmittedOrEmptyFieldNamed ==
  (Scanning /\ context = "steps_item") =>
    /\ ~CompleteStep(currentItem) => EveryFlushNamesMissing(Locals, lineIdx + 1)
    /\ \A f \in RequiredStepFields :
         LET left == Iteration(Locals, EmptyField(f), lineIdx + 1) IN
           IF left.ctl = "throw"
             THEN /\ left.err.subject = f
                  /\ left.err.ref = Identity(currentItem, Len(result.steps) + 1)
             ELSE EveryFlushNamesMissing(left.st, lineIdx + 2)

\* C7 as amended: a step that comes to its end (next item, end of the steps
\* section, end of input) without id, command, autonomy or error_policy, or
\* with an empty command, makes the parser throw an error with no line number
\* that names the first of these fields that is missing and identifies the
\* step by its id when present, by its 1-based position otherwise.  An empty
\* id, autonomy or error_policy never gets that far: it is refused at its own
\* line by the pattern or vocabulary check, with the line number and the
\* value, and nothing that identifies the step.
C7_IncompleteStepRejected ==
  /\ (Scanning /\ context = "steps_item") =>
       /\ ~CompleteStep(currentItem) =>
            /\ EveryFlushNamesMissing(Locals, lineIdx + 1)
            /\ EndOfInputChecks(Locals).err.kind = "step_missing_field"
            /\ EndOfInputChecks(Locals).err.subject = FirstMissing(currentItem)
            /\ EndOfInputChecks(Locals).err.line = 0
       /\ LET left == Iteration(Locals, EmptyField("command"), lineIdx + 1) IN
            /\ left.ctl = "continue"
            /\ left.st.currentItem.command = ""
            /\ EveryFlushNamesMissing(left.st, lineIdx + 2)
       /\ \A f \in RequiredStepFields \ {"command"} :
            LET left == Iteration(Locals, EmptyField(f), lineIdx + 1) IN
              /\ left.ctl = "throw"
              /\ left.err.kind \in {"step_id_pattern", "invalid_autonomy", "invalid_error_policy"}
              /\ left.err.subject = f
              /\ left.err.line = lineIdx + 1
              /\ left.err.value = ""
              /\ left.err.ref = NoRef
  /\ (pc = "error" /\ err.kind = "step_missing_field") =>
       /\ err.subject \in RequiredStepFields
       /\ (err.ref.id = "") = (err.ref.index >= 1)
       /\ err.ref.id = "" => err.subject = "id"
  /\ pc = "done" => \A i \in DOMAIN result.steps : CompleteStep(result.steps[i])

C7_Witness ==
  /\ pc = "error"
  /\ err.kind = "step_missing_field"
  /\ err.subject = "id"
  /\ err.ref = [id |-> "", index |-> 2]

TopRequiredFields == {"name", "description", "version"}

FirstMissingTop(r) ==
  IF ~NonEmpty(r.name) THEN "name"
  ELSE IF ~NonEmpty(r.description) THEN "description"
  ELSE "version"

\* the item in progress, if any, passes its flush
ItemInProgressValid ==
  /\ context = "steps_item" => CompleteStep(currentItem)
  /\ context = "args_item" => ValidArgument(currentItem)

TopFields == {"name", "description", "version", "args", "steps"}
StepFields ==
  {"id", "command", "args", "autonomy", "preconditions", "postconditions", "error_policy",
   "escalation_triggers", "parallel_group", "model"}
ArgFields == {"name", "description", "required"}

KeyCandidates ==
  {"extra", "x", "Bad", "id", "command", "required", "name", "steps", "parallel_group"}
KeyValues == { <<>>, <<"x">> }

RejectsKey(out, kind, key, n) ==
  /\ out.ctl = "throw"
  /\ out.err.kind = kind
  /\ out.err.subject = key
  /\ out.err.line = n

\* C9: no key is silently ignored: a key outside {name, description, version,
\* args, steps} at top level, a key outside the step fields inside a step and
\* a key outside {name, description, required} inside an argument each make
\* the parser throw an unknown-field error, at that line, naming the key.
C9_UnknownKeysRejected ==
  /\ (Scanning /\ context = "top") =>
       \A key \in KeyCandidates \ TopFields : \A raw \in KeyValues :
         RejectsKey(Iteration(Locals, KV(0, key, raw), lineIdx + 1),
                    "unknown_top_level_field", key, lineIdx + 1)
  /\ (Scanning /\ context = "steps_item") =>
       \A key \in KeyCandidates \ StepFields : \A raw \in KeyValues :
         RejectsKey(Iteration(Locals, KV(4, key, raw), lineIdx + 1),
                    "unknown_step_field", key, lineIdx + 1)
  /\ (Scanning /\ context = "steps") =>
       \A key \in KeyCandidates \ StepFields :
         RejectsKey(Iteration(Locals, LI(2, KV(0, key, <<"x">>)), lineIdx + 1),
                    "unknown_step_field", key, lineIdx + 1)
  /\ (Scanning /\ context = "args_item") =>
       \A key \in KeyCandidates \ ArgFields : \A raw \in KeyValues :
         RejectsKey(Iteration(Locals, KV(4, key, raw), lineIdx + 1),
                    "unknown_arg_field", key, lineIdx + 1)
  /\ (Scanning /\ context = "args") =>
       \A key \in KeyCandidates \ ArgFields :
         RejectsKey(Iteration(Locals, LI(2, KV(0, key, <<"x">>)), lineIdx + 1),
                    "unknown_arg_field", key, lineIdx + 1)
  /\ (pc = "error" /\ err.kind = "unknown_top_level_field") =>
       err.line = lineIdx + 1 /\ err.subject = matchKeyValue(line).key
                              /\ err.subject \notin TopFields
  /\ (pc = "error" /\ err.kind = "unknown_arg_field") =>
       err.line = lineIdx + 1 /\ err.subject \notin ArgFields

C9_Witness ==
  /\ pc = "error"
  /\ err.kind = "unknown_arg_field"
  /\ err.subject = "extra"
  /\ line = KV(4, "extra", <<"x">>)

SyntaxErrorKinds ==
  {"unexpected_content_top", "unexpected_indentation_top", "unexpected_content_args",
   "unexpected_content_args_item", "unexpected_content_steps",
   "unexpected_content_step_item", "cannot_parse_arg_field", "cannot_parse_step_field",
   "inline_list_syntax"}

\* C10 as claimed: every syntax error (malformed line, unexpected
\* indentation, malformed inline list) carries the 1-based number of the
\* offending physical line and that line's text (for the content of a "- "
\* item, the text after the dash).
C10_SyntaxErrorsLocated ==
  (pc = "error" /\ err.kind \in SyntaxErrorKinds) =>
    /\ err.line = lineIdx + 1
    /\ err.value \in {Str(trim(line)), Str(matchListItem(line).rawValue)}

\* an inline list: [ a, b ]
RECURSIVE CommaSeparated(_)
CommaSeparated(tags) ==
  IF tags = <<>> THEN <<>>
  ELSE IF Len(tags) = 1 THEN <<tags[1]>>
  ELSE <<tags[1], ",", " ">> \o CommaSeparated(Tail(tags))

Inline(tags) == <<"[">> \o CommaSeparated(tags) \o <<"]">>

\* the loop run over the lines "- tag", one per tag, indented by n, from P on
RECURSIVE BlockItems(_, _, _, _)
BlockItems(P, tags, n, lineNum) ==
  IF tags = <<>> THEN Continue(P)
  ELSE LET out == Iteration(P, LI(n, <<tags[1]>>), lineNum) IN
       IF out.ctl # "continue" THEN out ELSE BlockItems(out.st, Tail(tags), n, lineNum + 1)

\* a list field written in block form: the key line, then the item lines
BlockForm(P, keyLine, tags, n, lineNum) ==
  LET opened == Iteration(P, keyLine, lineNum) IN
  IF opened.ctl # "continue" THEN opened ELSE BlockItems(opened.st, tags, n, lineNum + 1)

\* ordered lists of at most two tags of the field's vocabulary
TagLists(f) ==
  LET tags == {AMember(f), IF f = "escalation_triggers" THEN "verdict_fail" ELSE "spec_exists"}
  IN {<<>>} \cup {<<a>> : a \in tags} \cup {<<a, b>> : a \in tags, b \in tags}

\* both forms are accepted and leave the same list in the field
FormsAgree(inline, block, f, tags) ==
  /\ inline.ctl = "continue"
  /\ block.ctl = "continue"
  /\ inline.st.currentItem[f] = tags
  /\ block.st.currentItem[f] = tags

\* the key on a line of its own, in a step that has not written the field yet
FieldLineFormsAgree ==
  (Scanning /\ context = "steps_item") =>
    \A f \in ListEnumFields : \A tags \in TagLists(f) :
      currentItem[f] = <<>> =>
        FormsAgree(Iteration(Locals, KV(4, f, Inline(tags)), lineIdx + 1),
                   BlockForm(Locals, KV(4, f, <<>>), tags, 6, lineIdx + 1), f, tags)

\* the key as the first field of a step, on the line of its dash
DashLineFormsAgree ==
  (Scanning /\ context = "steps") =>
    \A f \in ListEnumFields : \A tags \in TagLists(f) :
      FormsAgree(Iteration(Locals, LI(2, KV(0, f, Inline(tags))), lineIdx + 1),
                 BlockForm(Locals, LI(2, KV(0, f, <<>>)), tags, 6, lineIdx + 1), f, tags)

\* C11 as claimed: for any ordered list of vocabulary tags, preconditions,
\* postconditions or escalation_triggers written in inline form and in block
\* form (the key with an empty value, then one "- tag" line per tag two columns
\* deeper than the key) give the identical ordered list for the field.
C11_InlineAndBlockAgree == FieldLineFormsAgree /\ DashLineFormsAgree

\* the list an item context fills
ListOf(ctx) == IF ctx = "steps_item" THEN "steps" ELSE "args"
OtherList(ctx) == IF ctx = "steps_item" THEN "args" ELSE "steps"

\* the item in progress has passed every check of its flush
Finished(ctx, item) ==
  IF item = NoItem THEN FALSE
  ELSE IF ctx = "steps_item" THEN CompleteStep(item) ELSE ValidArgument(item)

\* one step of the parser that does not throw, as the two lists see it
ListsKeptInOrder ==
  pc' # "error" =>
    IF context \in {"steps_item", "args_item"}
      THEN /\ result'[OtherList(context)] = result[OtherList(context)]
           /\ \/ /\ result'[ListOf(context)] = result[ListOf(context)]
                 /\ context' = context
                 /\ pc' # "done"
                 /\ Finished(context, currentItem) => Finished(context, currentItem')
              \/ /\ result'[ListOf(context)] = Append(result[ListOf(context)], currentItem)
                 /\ Finished(context, currentItem)
                 /\ \/ pc' = "done"
                    \/ pc' = "rewind" /\ context' = "top" /\ currentItem' = NoItem
                    \/ context' = context /\ ~Finished(context, currentItem')
      ELSE /\ result'.steps = result.steps
           /\ result'.args = result.args

\* C12: the steps and the args of the returned document are in the order of
\* their "- " items in the text, none dropped, duplicated or reordered: a step
\* of the parser that does not throw leaves both lists as they are and the
\* item in progress in progress, or appends the item in progress, once, at the
\* end of its own list and goes on with a new item, with the top level or with
\* the return of the document.
C12_ItemsKeptInOrder == [][ListsKeptInOrder]_vars

C12_Witness ==
  /\ pc = "scan"
  /\ context = "steps_item"
  /\ Len(result.steps) >= 1
  /\ CompleteStep(currentItem)
  /\ currentItem # result.steps[1]

OptionalStepFields ==
  {"args", "preconditions", "postconditions", "escalation_triggers", "parallel_group"}

DefaultOf(f) ==
  IF f = "args" THEN "" ELSE IF f = "parallel_group" THEN null ELSE <<>>

\* lines that open a step, and one line for each way a field of a step is set
OpeningLines == { LI(2, <<>>), LI(2, KV(0, "id", <<"a">>)), LI(2, KV(0, "command", <<"/c">>)) }

FieldLines ==
  { KV(4, "id", <<"a">>), KV(4, "command", <<"/c">>), KV(4, "args", <<"x">>),
    KV(4, "autonomy", <<"auto">>), KV(4, "error_policy", <<"stop">>),
    KV(4, "parallel_group", <<"g">>), KV(4, "preconditions", <<"[", "spec_exists", "]">>),
    KV(4, "postconditions", <<"[", "pr_created", "]">>),
    KV(4, "escalation_triggers", <<"[", "verdict_fail", "]">>),
    KV(4, "preconditions", <<>>), KV(4, "postconditions", <<>>) }

\* C13: a returned step that omits its optional fields has args = "",
\* preconditions = [], postconditions = [], escalation_triggers = [] and
\* parallel_group = null: a step is opened with these five values, a field
\* line leaves the optional fields other than its own as they were, a block
\* list item touches the active list only, and the flush appends the step as
\* it is.
C13_OptionalFieldDefaults ==
  /\ (Scanning /\ context \in {"steps", "steps_item"}) =>
       \A l \in OpeningLines :
         LET out == Iteration(Locals, l, lineIdx + 1) IN
           out.ctl = "continue" =>
             \A f \in OptionalStepFields : out.st.currentItem[f] = DefaultOf(f)
  /\ (Scanning /\ context = "steps_item") =>
       /\ \A l \in FieldLines :
            LET out == Iteration(Locals, l, lineIdx + 1) IN
              /\ out.ctl = "continue"
              /\ \A f \in OptionalStepFields \ {matchKeyValue(l).key} :
                   out.st.currentItem[f] = currentItem[f]
       /\ listField # null =>
            LET out == Iteration(Locals, LI(listIndent, <<"spec_exists">>), lineIdx + 1) IN
              /\ out.ctl = "continue"
              /\ \A f \in OptionalStepFields \ {listField} :
                   out.st.currentItem[f] = currentItem[f]
  /\ pc = "done" =>
       \A i \in DOMAIN result.steps :
         \A f \in OptionalStepFields \ {"preconditions"} : result.steps[i][f] = DefaultOf(f)

C13_Witness ==
  /\ pc = "done"
  /\ \E i \in DOMAIN result.steps :
       \A f \in OptionalStepFields : result.steps[i][f] = DefaultOf(f)

MissingFieldKinds == {"missing_top_level_field", "step_missing_field", "no_steps"}
EnumKinds ==
  {"invalid_autonomy", "invalid_error_policy", "invalid_model", "invalid_escalation_trigger",
   "invalid_precondition", "invalid_postcondition"}

KindsOf(list) == {list[i].kind : i \in DOMAIN list}

DistinctIds(steps) == \A i, j \in DOMAIN steps : i # j => steps[i].id # steps[j].id

\* the names between {{ and }} in the args of the steps
PlaceholdersIn(steps) ==
  UNION { Range(matchAll(Tokens(steps[i].args), 1)) : i \in DOMAIN steps }

ArgumentNames(args) == {args[i].name : i \in DOMAIN args}

\* C14: for every text the parser accepts, the validator reports on the
\* returned document no missing-field violation and no enum violation (it
\* does not throw, and all it can report is the name pattern, a repeated id
\* or a dangling placeholder); if moreover the name is a slug, the step ids
\* are pairwise distinct and every placeholder names a declared argument, it
\* returns the empty list.
C14_ParsedDocumentValidates ==
  /\ pc # "threw"
  /\ pc = "checked" =>
       /\ playbook = result
       /\ KindsOf(violations) \cap (MissingFieldKinds \cup EnumKinds) = {}
       /\ KindsOf(violations) \subseteq {"name_pattern", "id_not_unique", "dangling_arg"}
       /\ (/\ result.name \in SlugWords
           /\ DistinctIds(result.steps)
           /\ PlaceholdersIn(result.steps) \subseteq ArgumentNames(result.args))
          => violations = <<>>

C14_Witness ==
  /\ pc = "checked"
  /\ violations = <<>>
  /\ Len(playbook.steps) >= 1

\* the steps of a document, none when the list is null
StepsOf(document) == IF document.steps = NullItems THEN <<>> ELSE document.steps

\* the ids the steps carry (an empty or null id is a missing id)
IdsOf(document) ==
  {Prop(StepsOf(document)[k], "id") : k \in DOMAIN StepsOf(document)} \ {null, undefined, ""}

OccurrencesOf(id, steps) == {k \in DOMAIN steps : Prop(steps[k], "id") = id}

UniquenessReports(id, list) ==
  {i \in DOMAIN list : list[i].kind = "id_not_unique" /\ list[i].value = id}

FirstSteps(document, n) == [document EXCEPT !.steps = SubSeq(StepsOf(document), 1, n)]

\* C15: when an id occurs n >= 1 times among the steps of a hand-built
\* document, the validator reports exactly n - 1 uniqueness violations naming
\* it, and none naming anything else; the same holds of the document cut
\* after any of its steps, so each occurrence after the first adds one report
\* (they are not merged) and the first occurrence adds none.
C15_OneReportPerRepeatedId ==
  pc = "validated" =>
    /\ \A id \in IdsOf(playbook) :
         /\ Cardinality(UniquenessReports(id, violations))
              = Cardinality(OccurrencesOf(id, StepsOf(playbook))) - 1
         /\ \A n \in DOMAIN StepsOf(playbook) :
              LET cut == FirstSteps(playbook, n)
                  occurrences == Cardinality(OccurrencesOf(id, StepsOf(cut)))
              IN Cardinality(UniquenessReports(id, _validatePlaybook(cut).violations))
                   = IF occurrences = 0 THEN 0 ELSE occurrences - 1
    /\ \A i \in DOMAIN violations :
         violations[i].kind = "id_not_unique" => violations[i].value \in IdsOf(playbook)

C15_Witness ==
  /\ pc = "validated"
  /\ \E id \in IdsOf(playbook) :
       /\ Cardinality(OccurrencesOf(id, StepsOf(playbook))) = 3
       /\ Cardinality(UniquenessReports(id, violations)) = 2

MaxTemplate == 7

\* the template of a step as tokens, empty when the step has none
TemplateOf(step) ==
  IF Prop(step, "args") \in {null, undefined, ""} THEN <<>> ELSE Tokens(step.args)

\* where the "}}" that closes the "{{" at i stands, 0 when none does
ClosedAt(tokens, i) ==
  IF \E j \in i + 1..Len(tokens) : tokens[j] = "}}"
    THEN CHOOSE j \in i + 1..Len(tokens) :
           tokens[j] = "}}" /\ \A m \in i + 1..j - 1 : tokens[m] # "}}"
    ELSE 0

\* a placeholder starts at i: "{{", a name, "}}"
PlaceholderAt(tokens, i) == tokens[i] = "{{" /\ ClosedAt(tokens, i) > i + 1

\* its name, the blanks around it left out
NameAt(tokens, i) ==
  Str(SelectSeq(SubSeq(tokens, i + 1, ClosedAt(tokens, i) - 1), LAMBDA t : t # " "))

\* the names of the arguments a document declares
DeclaredNames(document) ==
  IF document.args = NullItems THEN {}
  ELSE {document.args[i].name : i \in DOMAIN document.args} \ {null, undefined, ""}

\* how a message names a step: by its id, or as unknown when it has none
NameOfStep(step) ==
  IF Prop(step, "id") \in {null, undefined, ""} THEN "step (unknown id)"
  ELSE "step \"" \o step.id \o "\""

\* the occurrences <<step index, position>> of placeholders of undeclared names
DanglingOccurrences(document) ==
  { <<k, i>> \in (DOMAIN StepsOf(document)) \X (1..MaxTemplate) :
      LET tokens == TemplateOf(StepsOf(document)[k]) IN
      /\ i \in DOMAIN tokens
      /\ PlaceholderAt(tokens, i)
      /\ NameAt(tokens, i) \notin DeclaredNames(document) }

DanglingReports(list) == {i \in DOMAIN list : list[i].kind = "dangling_arg"}

\* C16: the validator reports exactly one violation for each occurrence of a
\* placeholder whose name is not a declared argument, naming the step and
\* the placeholder: for every step name and placeholder name, as many
\* dangling-reference violations carry the pair as there are such
\* occurrences in the steps of that name; a placeholder of a declared name
\* gives none.
C16_OneReportPerDanglingPlaceholder ==
  pc \in {"validated", "declared"} =>
    LET steps == StepsOf(playbook)
        occurrences == DanglingOccurrences(playbook)
        pairOf(o) == <<NameOfStep(steps[o[1]]), NameAt(TemplateOf(steps[o[1]]), o[2])>>
        pairs == {pairOf(o) : o \in occurrences}
                   \cup {<<violations[i].ref, violations[i].value>> :
                           i \in DanglingReports(violations)}
    IN /\ Cardinality(DanglingReports(violations)) = Cardinality(occurrences)
       /\ \A pair \in pairs :
            Cardinality({i \in DanglingReports(violations) :
                           <<violations[i].ref, violations[i].value>> = pair})
              = Cardinality({o \in occurrences : pairOf(o) = pair})

\* a step with the same undeclared placeholder twice, and a declared one elsewhere
C16_Witness ==
  /\ pc = "validated"
  /\ DeclaredNames(playbook) = {"x"}
  /\ \E k, j \in DOMAIN StepsOf(playbook) :
       /\ Prop(StepsOf(playbook)[k], "args") = "{{y}} {{y}}"
       /\ Prop(StepsOf(playbook)[j], "args") = "{{x}} {{y}}"
  /\ Cardinality(DanglingReports(violations)) = 3

\* the violations of a list that are about the placeholder of a name
About(name, v) == v.kind = "dangling_arg" /\ v.value = name

\* the step from a validated document to the same document with one more
\* complete argument, validated
Declares(name) ==
  /\ pc = "validated"
  /\ pc' \in {"declared", "threw"}
  /\ playbook.args # NullItems
  /\ DeclaredNames(playbook') = DeclaredNames(playbook) \cup {name}
  /\ name \notin DeclaredNames(playbook)
  /\ playbook'.steps = playbook.steps

\* C17: when a document whose args is a list has a dangling placeholder of
\* some name, adding a complete argument of that name (at either end of the
\* list) and validating again gives the old violation list with the
\* violations about that placeholder removed, the others kept in place and
\* none added.
C17_DeclaringRemovesOnlyItsViolations ==
  [][\A name \in {"x", "y"} :
       Declares(name) =>
         /\ pc' = "declared"
         /\ violations' = SelectSeq(violations, LAMBDA v : ~About(name, v))
         /\ \A i \in DOMAIN violations' : ~About(name, violations'[i])]_vars

\* x has been declared in a document that uses {{x}} and {{y}}: the reports
\* about y are still there
C17_Witness ==
  /\ pc = "declared"
  /\ DeclaredNames(playbook) = {"x"}
  /\ \E k \in DOMAIN StepsOf(playbook) : Prop(StepsOf(playbook)[k], "args") = "{{x}} {{y}}"
  /\ \E i \in DOMAIN violations : About("y", violations[i])
  /\ \A i \in DOMAIN violations : ~About("x", violations[i])

Absent(v) == v \in {null, undefined, ""}

Count(cond) == IF cond THEN 1 ELSE 0

\* a list-valued field of a step, empty when null or absent
TagsOf(step, field) ==
  IF field \in DOMAIN step /\ step[field] # NullList THEN step[field] ELSE <<>>

\* the number of defects in the top-level fields of a document
TopDefects(document) ==
  Cardinality({f \in {"name", "description", "version"} : Absent(document[f])})
  + Count(document.args = NullItems)
  + Count(document.steps = NullItems)
  + Count(~Absent(document.name) /\ document.name \notin SlugWords)
  + Count(StepsOf(document) = <<>>)

\* the number of defects in the k-th step of a document
StepDefects(document, k) ==
  LET steps == StepsOf(document)
      step == steps[k]
      id == Prop(step, "id")
      tokens == TemplateOf(step)
      declared == DeclaredNames(document)
      allowed(f) == IF f = "model" THEN ModelSet ELSE Vocabulary(f)
  IN Cardinality({f \in RequiredStepFields : Absent(Prop(step, f))})
     + Count(~Absent(id) /\ id \notin SlugWords)
     + Count(~Absent(id) /\ \E j \in 1..k - 1 : Prop(steps[j], "id") = id)
     + Cardinality({f \in ScalarEnumFields \cup {"model"} :
                      ~Absent(Prop(step, f)) /\ Prop(step, f) \notin allowed(f)})
     + Cardinality({<<f, i>> \in ListEnumFields \X (1..MaxTemplate) :
                      i <= Len(TagsOf(step, f)) /\ TagsOf(step, f)[i] \notin Vocabulary(f)})
     + Cardinality({i \in DOMAIN tokens :
                      PlaceholderAt(tokens, i) /\ NameAt(tokens, i) \notin declared})

DefectCounts(document) ==
  [k \in DOMAIN StepsOf(document) |-> StepDefects(document, k)]

\* the sum of the first k numbers of a sequence
RECURSIVE SumTo(_, _)
SumTo(counts, k) == IF k = 0 THEN 0 ELSE counts[k] + SumTo(counts, k - 1)

TopLevelKinds == {"missing_top_level_field", "name_pattern", "no_steps"}

\* a violation is about a step: it names it, or it is the report that its id
\* is not unique
AboutStep(step, v) ==
  IF v.kind = "id_not_unique" THEN v.value = Prop(step, "id")
  ELSE v.kind \notin TopLevelKinds /\ v.ref = NameOfStep(step)

\* C18: the validator does not stop at a defect: the list holds one violation
\* for each defect of the document, first those of the top-level fields, then
\* those of each step in step order, so that every step with a defect has its
\* violations in the list however many defects come before it.
C18_EveryDefectReportedInOrder ==
  pc = "validated" =>
    LET steps == StepsOf(playbook)
        top == TopDefects(playbook)
        counts == DefectCounts(playbook)
        \* the number of defects before the k-th step
        before(k) == top + SumTo(counts, k - 1)
    IN /\ Len(violations) = before(Len(steps) + 1)
       /\ \A i \in 1..top : violations[i].kind \in TopLevelKinds
       /\ \A k \in DOMAIN steps :
            \A i \in before(k) + 1..before(k + 1) : AboutStep(steps[k], violations[i])

\* top-level defects and three defective steps, all reported
C18_Witness ==
  /\ pc = "validated"
  /\ TopDefects(playbook) >= 2
  /\ Len(StepsOf(playbook)) = 3
  /\ \A k \in 1..3 : StepDefects(playbook, k) >= 1
  /\ Cardinality({Prop(StepsOf(playbook)[k], "id") : k \in 1..3}) = 3
  /\ Len(violations) >= 5

\* the document has a defect somewhere
Defective(document) ==
  \/ TopDefects(document) > 0
  \/ \E k \in DOMAIN StepsOf(document) : StepDefects(document, k) > 0

\* C19: the validator throws for no document of the right shape, whether its
\* required fields are null or empty, its args or steps list empty or null,
\* or the optional fields of its steps null or absent: the call returns, and
\* it returns a non-empty list when the document has a defect.
C19_ValidatorNeverThrows ==
  /\ pc # "threw"
  /\ pc \in {"validated", "revalidated", "declared"} /\ Defective(playbook)
       => violations # <<>>

\* a validated document with null and empty required fields, no list of
\* arguments, a step whose list is null and a step without optional keys
C19_Witness ==
  /\ pc = "validated"
  /\ playbook.name = null
  /\ playbook.description = ""
  /\ playbook.args = NullItems
  /\ \E k, j \in DOMAIN StepsOf(playbook) :
       /\ ListProp(StepsOf(playbook)[k], "preconditions") = NullList
       /\ Prop(StepsOf(playbook)[k], "id") = null
       /\ ListProp(StepsOf(playbook)[j], "postconditions") = UndefinedList
  /\ violations # <<>>

\* a validated document without steps
C19_EmptyListsWitness ==
  /\ pc = "validated"
  /\ playbook.args = <<>>
  /\ playbook.steps = <<>>
  /\ \E i \in DOMAIN violations : violations[i].kind = "no_steps"

\* a step of the behaviour is a call of the validator on the document held
FirstCall == pc = "built" /\ pc' \in {"validated", "threw"}
SecondCall == pc = "validated" /\ pc' \in {"revalidated", "threw"}

C20_DefectiveWitness ==
  /\ pc = "revalidated"
  /\ violations # <<>>
  /\ \E k \in DOMAIN StepsOf(playbook) : "args" \notin DOMAIN StepsOf(playbook)[k]

\* the closed set of an enum field, and the kind of the violation about it
ClosedSet(field) == IF field = "model" THEN ModelSet ELSE Vocabulary(field)

EnumKindOf(field) ==
  IF field = "autonomy" THEN "invalid_autonomy"
  ELSE IF field = "error_policy" THEN "invalid_error_policy"
  ELSE IF field = "model" THEN "invalid_model"
  ELSE IF field = "escalation_triggers" THEN "invalid_escalation_trigger"
  ELSE IF field = "preconditions" THEN "invalid_precondition"
  ELSE "invalid_postcondition"

\* the values a step gives to an enum field: the scalar if it has one, the
\* tags of the list
GivenValues(step, field) ==
  IF field \in ListEnumFields THEN TagsOf(step, field)
  ELSE IF Absent(Prop(step, field)) THEN <<>> ELSE <<Prop(step, field)>>

\* the places <<step index, field, position>> holding a value outside its set
OutsideValues(document) ==
  { <<k, f, i>> \in (DOMAIN StepsOf(document)) \X (ScalarEnumFields \cup {"model"}
                                                     \cup ListEnumFields) \X (1..MaxTemplate) :
      LET given == GivenValues(StepsOf(document)[k], f) IN
      i \in DOMAIN given /\ given[i] \notin ClosedSet(f) }

EnumReports(list) == {i \in DOMAIN list : list[i].kind \in EnumKinds}

\* what a violation about a value says: the kind, the step and the value
Said(v) == <<v.kind, v.ref, v.value>>

\* C21: on a hand-built document the validator returns, without throwing,
\* one violation for each value of autonomy, error_policy, model, an
\* escalation trigger or a condition that is outside its closed set, naming
\* the step, the value and the allowed set; a model that is null, absent or
\* empty gives none.
C21_OutsideValuesReported ==
  /\ pc # "threw"
  /\ pc = "validated" =>
       LET steps == StepsOf(playbook)
           outside == OutsideValues(playbook)
           saidOf(o) == <<EnumKindOf(o[2]), NameOfStep(steps[o[1]]),
                          GivenValues(steps[o[1]], o[2])[o[3]]>>
           reports == EnumReports(violations)
       IN /\ \A i \in reports :
               \E f \in ScalarEnumFields \cup {"model"} \cup ListEnumFields :
                 /\ violations[i].kind = EnumKindOf(f)
                 /\ Range(violations[i].allowed) = ClosedSet(f)
          /\ \A said \in {saidOf(o) : o \in outside} \cup {Said(violations[i]) : i \in reports} :
               Cardinality({i \in reports : Said(violations[i]) = said})
                 = Cardinality({o \in outside : saidOf(o) = said})
          /\ \A k \in DOMAIN steps :
               Absent(Prop(steps[k], "model")) /\ ~Absent(Prop(steps[k], "id"))
                 => \A i \in reports :
                      ~(violations[i].kind = "invalid_model"
                        /\ violations[i].ref = NameOfStep(steps[k]))

\* a document with a value outside each of the five sets, next to steps whose
\* model is empty and absent
C21_Witness ==
  /\ pc = "validated"
  /\ {violations[i].kind : i \in EnumReports(violations)} = EnumKinds
  /\ \E k, j \in DOMAIN StepsOf(playbook) :
       /\ Prop(StepsOf(playbook)[k], "model") = ""
       /\ Prop(StepsOf(playbook)[j], "model") = undefined

\* a text with its line endings rewritten: every end of line bare, or every
\* one preceded by a carriage return
AsLF(content) == SelectSeq(content, LAMBDA c : c # "\r")
AsCRLF(content) ==
  LET ls == split(AsLF(content))
  IN Flatten([i \in DOMAIN ls |-> IF i < Len(ls) THEN ls[i] \o CRLF ELSE ls[i]])

\* C22: a text written with CRLF line endings parses as the same text written
\* with LF: the same document when it is accepted, the same error (kind, line
\* number and all) when it is refused; and that is what the check command
\* gets from the file whichever way it is written.
C22_LineEndingsAgree ==
  file.exists =>
    LET lf == parsePlaybook(AsLF(file.content))
        crlf == parsePlaybook(AsCRLF(file.content))
    IN /\ pc = "start" =>
            /\ crlf.ctl = lf.ctl
            /\ crlf.err = lf.err
            /\ lf.ctl # "throw" => crlf.st.result = lf.st.result
       /\ pc = "parsed" => lf.ctl # "throw" /\ result = lf.st.result
       /\ pc = "exited" /\ playbook = NoItem => lf.ctl = "throw" /\ err = lf.err

\* a file written with CRLF was parsed into its document
C22_Witness ==
  /\ pc = "parsed"
  /\ \E i \in DOMAIN file.content : file.content[i] = "\r"
  /\ result.name = "m"
  /\ Len(result.args) = 1
  /\ Len(result.steps) = 1
  /\ result.steps[1].preconditions = <<"spec_exists", "pr_created">>

\* a file written with CRLF was refused with an error that names a line
C22_ErrorWitness ==
  /\ pc = "exited"
  /\ \E i \in DOMAIN file.content : file.content[i] = "\r"
  /\ err.line > 1

\* a line that is blank or a comment: only blanks, or "#" after the blanks
BlankOrComment(l) ==
  \/ \A i \in DOMAIN l : l[i] \in {" ", "\t", "\r"}
  \/ \E i \in DOMAIN l : l[i] = "#" /\ \A j \in 1..i - 1 : l[j] \in {" ", "\t"}

\* the text without its blank lines and comments
WithoutBlanks(content) ==
  TextOf(SelectSeq(split(AsLF(content)), LAMBDA l : ~BlankOrComment(l)), LF)

\* the lines of the text that are blank lines or comments, by line number
BlanksOf(content) ==
  {i \in DOMAIN split(AsLF(content)) : BlankOrComment(split(AsLF(content))[i])}

\* C23: deleting the blank lines and full-line comments of a text (between
\* top-level keys, inside an args item, inside a steps item, between the
\* items of a block list) changes neither whether it is accepted, nor the
\* document produced, nor the kind, subject and value of the error when it is
\* refused (the line number of the error moves with the lines).
C23_BlankLinesAndCommentsSkipped ==
  file.exists /\ pc = "start" =>
    LET with == parsePlaybook(file.content)
        without == parsePlaybook(WithoutBlanks(file.content))
    IN /\ with.ctl = without.ctl
       /\ with.ctl # "throw" => with.st = without.st
       /\ with.ctl = "throw" =>
            /\ with.err.kind = without.err.kind
            /\ with.err.subject = without.err.subject
            /\ with.err.value = without.err.value
            /\ with.err.ref = without.err.ref

\* a file with a comment inside its args item, a blank line inside its steps
\* item and a comment between the items of a block list was parsed
C23_Witness ==
  /\ pc = "parsed"
  /\ {1, 4, 8, 14, 19} \subseteq BlanksOf(file.content)
  /\ Len(result.args) = 1
  /\ result.steps[1].preconditions = <<"spec_exists", "pr_created">>

\* what the check command has to report for a text: the parse error when
\* the parser throws, the validator's violations otherwise
Diagnostics(content) ==
  LET out == parsePlaybook(content)
  IN IF out.ctl = "throw" THEN <<ParseError(out.err)>>
     ELSE _validatePlaybook(out.st.result).violations

\* the run of the check command on a readable file is over
Reported == pc = "exited" /\ file.exists

\* C24: once the check command has exited on a readable file, it exited with
\* 0 and printed the single line "<path> is valid" exactly when the text
\* parses and validates without a violation; otherwise it exited with 1 and
\* printed the header with the number of diagnostics followed by one bullet
\* per diagnostic, all of them, in order.
C24_ExitCodeAndOutput ==
  Reported =>
    LET list == Diagnostics(file.content)
    IN /\ exitCode \in {0, 1}
       /\ exitCode = 0 <=> list = <<>>
       /\ stdout = <<Output("valid", file.path, 0)>> <=> list = <<>>
       /\ list # <<>> =>
            /\ Len(stdout) = Len(list) + 1
            /\ stdout[1] = Output("failure", file.path, Len(list))
            /\ \A i \in DOMAIN list : stdout[i + 1] = Bullet(list[i])

\* a valid file was reported valid
C24_Witness ==
  /\ Reported
  /\ exitCode = 0
  /\ stdout = <<Output("valid", "p.yaml", 0)>>

\* a file with two violations was reported with its two bullets
C24_ViolationsWitness ==
  /\ Reported
  /\ exitCode = 1
  /\ Len(violations) = 2
  /\ Len(stdout) = 3

\* a file that does not parse was reported
C24_ParseErrorWitness ==
  /\ Reported
  /\ exitCode = 1
  /\ err.kind # "none"
  /\ Len(stdout) = 2

\* the parser throws on the text of the file
ParseThrows == parsePlaybook(file.content).ctl = "throw"

\* the validator is being invoked: the document is handed to it
ValidatorInvoked == playbook' # playbook \/ violations' # violations

\* while the parser throws on the file, the validator has not been given
\* anything, and what is printed at exit is the header for one diagnostic
\* and the parser's message, nothing else
SoleDiagnostic ==
  file.exists /\ ParseThrows =>
    /\ playbook = NoItem
    /\ violations = <<>>
    /\ pc \in {"start", "exited"}
    /\ pc = "exited" =>
         /\ stdout = <<Output("failure", file.path, 1),
                       Bullet(ParseError(parsePlaybook(file.content).err))>>
         /\ exitCode = 1

\* C25: in the check command the validator is invoked only from the state
\* reached by a successful parse of the file; when the parser throws, the
\* validator is never invoked and the parser's message is the only
\* diagnostic printed before the command exits with 1.
C25_ValidatorOnlyAfterParse ==
  /\ []SoleDiagnostic
  /\ [][ValidatorInvoked => pc = "parsed" /\ file.exists /\ ~ParseThrows
                            /\ playbook' = parsePlaybook(file.content).st.result]_vars

\* the parser threw, nothing was validated and the command has exited
C25_Witness ==
  /\ pc = "exited"
  /\ file.exists
  /\ err.kind # "none"
  /\ playbook = NoItem
  /\ stdout = <<Output("failure", "p.yaml", 1), Bullet(ParseError(err))>>

\* the parser succeeded and the validator was given its document
C25_ValidatedWitness ==
  /\ pc = "collected"
  /\ playbook = result
  /\ playbook # NoItem

\* the run is over: the parser threw, or it returned and the document was checked
Terminated == pc \in {"error", "checked", "threw"}

\* a step that rewinds: it starts in a list section, on a `key: value` line
\* at indentation zero, hands that line to the top context and does not
\* advance the line index
RewindStep ==
  /\ pc = "scan"
  /\ context \in {"args", "args_item", "steps", "steps_item"}
  /\ context' = "top"
  /\ matchKeyValue(line').ok
  /\ matchKeyValue(line').indent = 0
  /\ lineIdx' = lineIdx

\* a step on a rewound line: the top context reads that very line and either
\* consumes it or throws; it does not rewind
RetryStep ==
  /\ context = "top"
  /\ pc' \in {"scan", "error"}
  /\ pc' = "scan" => lineIdx' = lineIdx + 1
  /\ pc' = "error" => lineIdx' = lineIdx /\ line' = line

\* C26: the scan terminates: a rewind happens only on a zero-indent
\* `key: value` line in an args or steps section and passes the line to the
\* top context, the top context never rewinds, the line index never goes
\* down in between, and every run reaches the end of input or an error.
C26_ScanTerminates ==
  /\ [][(pc' = "rewind" /\ pc # "rewind" => RewindStep)
        /\ (pc = "rewind" => RetryStep)
        /\ lineIdx' >= lineIdx]_vars
  /\ [](pc = "rewind" => context = "top")
  /\ <>Terminated

\* a steps section was ended by a top-level key after an args section had
\* been: the line waits to be read again in top context
C26_Witness ==
  /\ pc = "rewind"
  /\ context = "top"
  /\ Len(result.args) >= 1
  /\ Len(result.steps) >= 1

\* an args section was ended by a top-level key before its first item
C26_ArgsWitness ==
  /\ pc = "rewind"
  /\ context = "top"
  /\ result.args = <<>>
  /\ lineIdx >= 6

\* the collections hold complete items only
OnlyCompleteItems ==
  /\ \A i \in DOMAIN result.args : ValidArgument(result.args[i])
  /\ \A i \in DOMAIN result.steps : CompleteStep(result.steps[i])

\* a collection changes only by one item pushed at its end, and that item is
\* the item that was in progress, complete (a throw leaves no collection)
PushedWhenComplete ==
  /\ result.args' # result.args /\ pc' # "error" =>
       /\ result.args' = Append(result.args, currentItem)
       /\ context = "args_item"
       /\ ValidArgument(currentItem)
  /\ result.steps' # result.steps /\ pc' # "error" =>
       /\ result.steps' = Append(result.steps, currentItem)
       /\ context = "steps_item"
       /\ CompleteStep(currentItem)

\* C27: during the scan and at end of input the args and steps collections
\* contain complete items only (argument: name, description, required; step:
\* id, command, autonomy, error_policy), and an item enters its collection
\* only as the complete in-progress item pushed at the end.
C27_OnlyCompleteItemsAppended ==
  /\ []OnlyCompleteItems
  /\ [][PushedWhenComplete]_vars

\* the scan goes on with an argument and a step in the collections while a
\* second step, not complete yet, is in progress
C27_Witness ==
  /\ pc = "scan"
  /\ Len(result.args) >= 1
  /\ Len(result.steps) >= 1
  /\ context = "steps_item"
  /\ ~CompleteStep(currentItem)

\* the `key: value` lines of the palette that are indented, but not deeper
\* than the dash that opened the current item
ShallowFieldLines ==
  {l \in Palette : /\ ~matchListItem(l).ok
                   /\ matchKeyValue(l).ok
                   /\ matchKeyValue(l).indent > 0
                   /\ matchKeyValue(l).indent <= itemDashIndent}

\* C28: inside an args item or a steps item, a `key: value` line whose
\* indentation is not zero and not deeper than the item's opening dash is
\* refused and leaves the item as it was.
C28_ShallowFieldRejected ==
  Scanning /\ context \in {"args_item", "steps_item"} =>
    \A l \in ShallowFieldLines : Iteration(Locals, l, lineIdx + 1).ctl = "throw"

\* a block list has just been opened by its key and has no item yet
BlockListOpened ==
  /\ Scanning
  /\ context = "steps_item"
  /\ listField # null
  /\ currentItem[listField] = <<>>

\* a member of the vocabulary of the active list field
TagFor(field) == IF field = "escalation_triggers" THEN "verdict_fail" ELSE "spec_exists"

\* the indentations a first item can have when it is deeper than the key but
\* not at the key's indentation plus two
OtherIndents == {listIndent - 1, listIndent + 1, listIndent + 2}

\* C29: the first `- item` line after a list key with an empty value is
\* accepted at its own indentation, also when that is not the key's
\* indentation plus two, and that indentation becomes the one of the block.
C29_FirstItemCalibrates ==
  BlockListOpened =>
    \A n \in OtherIndents :
      LET out == Iteration(Locals, LI(n, <<TagFor(listField)>>), lineIdx + 1)
      IN /\ out.ctl = "continue"
         /\ out.st.currentItem[listField] = <<TagFor(listField)>>
         /\ out.st.listField = listField
         /\ out.st.listIndent = n

\* the item in progress exists exactly in the two item contexts, and a block
\* list is collected only inside a steps item, for one of the three list fields
ItemAndSubMode ==
  /\ currentItem # NoItem <=> context \in {"args_item", "steps_item"}
  /\ listField # null =>
       /\ context = "steps_item"
       /\ listField \in {"preconditions", "postconditions", "escalation_triggers"}
       /\ listIndent >= 0
  /\ listField = null => listIndent = NoIndent

\* the locals with the sub-mode closed
SubModeClosed == [Locals EXCEPT !.listField = null, !.listIndent = NoIndent]

\* the vocabulary of the active list field
VocabularyOf(field) == IF field = "escalation_triggers" THEN TriggerSet ELSE ConditionSet

\* what the parser does with line l while a block list is collected
InSubMode(l) ==
  LET li == matchListItem(l)
      out == Iteration(Locals, l, lineIdx + 1)
      tag == Str(unquote(li.rawValue))
  IN IF li.ok /\ li.indent = listIndent
       THEN IF tag \in VocabularyOf(listField)
              THEN /\ out.ctl = "continue"
                   /\ out.st = [Locals EXCEPT !.currentItem[listField] = Append(@, tag)]
              ELSE /\ out.ctl = "throw"
                   /\ out.err.line = lineIdx + 1
       ELSE /\ out = Iteration(SubModeClosed, l, lineIdx + 1)
            /\ out.ctl = "rewind" => out.st.context = "top" /\ out.st.listField = null
            /\ out.ctl = "continue" =>
                 \/ out.st.result.steps = Append(result.steps, currentItem)
                 \/ /\ out.st.result = result
                    /\ out.st.context = "steps_item"
                    /\ matchKeyValue(l).ok
                    /\ matchKeyValue(l).indent > 0

SubModeLines == Scanning /\ listField # null => \A l \in Palette : Skipped(l) \/ InSubMode(l)

\* C30: in every parser state the item in progress exists exactly when the
\* context is args_item or steps_item, and a block list is collected only in
\* steps_item; while one is collected, a list item at the list's indentation
\* is appended to the active field if it is in the field's vocabulary and
\* refused if not, and every other line that is not blank or a comment is
\* handled exactly as it is with the sub-mode closed: a new step, the end of
\* the section, a field of the current step, or an error.
C30_ItemAndBlockListSubMode == []ItemAndSubMode /\ []SubModeLines

\* after an args section, a block list with two items is being collected
C30_Witness ==
  /\ Scanning
  /\ context = "steps_item"
  /\ listField # null
  /\ Len(currentItem[listField]) = 2
  /\ Len(result.args) >= 1

\* list-field lines whose inline list is malformed: no closing bracket, a
\* double quote opened and never closed, a single quote opened and never closed
UnclosedBracketLine == KV(4, "preconditions", <<"[", "spec_exists">>)
UnclosedQuoteLines ==
  { KV(4, "preconditions", <<"[", "\"", "spec_exists", "]">>),
    KV(4, "postconditions", <<"[", "'", "pr_created", "]">>) }

\* C31: in a steps item, a list field whose value starts with "[" and has no
\* closing "]", and one in which a quote is opened and never closed, are both
\* refused: neither is turned into a list.
C31_MalformedInlineListRejected ==
  Scanning /\ context = "steps_item" =>
    \A l \in {UnclosedBracketLine} \cup UnclosedQuoteLines :
      Iteration(Locals, l, lineIdx + 1).ctl = "throw"

\* the two writings of the empty-list shorthand
EmptyShorthands == { <<"[", "]">>, <<"[", " ", "]">> }

\* lines that would open an item
ItemLines == { LI(2, KV(0, "id", <<"a">>)), LI(2, KV(0, "name", <<"x">>)), LI(2, <<>>) }

\* the shorthand on key leaves every local as it was, and an item line that
\* follows is refused by the top context, at its own line
ShorthandKeepsTop(key) ==
  \A v \in EmptyShorthands :
    LET out == Iteration(Locals, KV(0, key, v), lineIdx + 1)
    IN /\ out.ctl = "continue"
       /\ out.st = Locals
       /\ \A l \in ItemLines :
            LET next == Iteration(out.st, l, lineIdx + 2)
            IN /\ next.ctl = "throw"
               /\ next.err.kind = "unexpected_content_top"
               /\ next.err.line = lineIdx + 2

\* the three scalar top-level fields are set
ScalarsSet == NonEmpty(result.name) /\ NonEmpty(result.description) /\ NonEmpty(result.version)

\* a text that ends after its steps were written as the shorthand, or as a
\* block without items, is refused; with the scalar fields set the error is
\* the at-least-one-step error
NoStepsRefused ==
  result.steps = <<>> =>
    \A v \in EmptyShorthands \cup {<<>>} :
      LET end == EndOfInputChecks(Iteration(Locals, KV(0, "steps", v), lineIdx + 1).st)
      IN /\ end.ctl = "throw"
         /\ ScalarsSet <=> end.err.kind = "no_steps"

EmptyLists ==
  Scanning /\ context = "top" =>
    /\ ShorthandKeepsTop("args")
    /\ ShorthandKeepsTop("steps")
    /\ NoStepsRefused

\* the at-least-one-step error is raised by the step that ends the scan, not
\* by a line
NoStepsOnlyAtEnd ==
  err'.kind = "no_steps" /\ err.kind # "no_steps" =>
    /\ pc = "scan"
    /\ pc' = "error"
    /\ line' = <<>>
    /\ lineIdx' = lineIdx

\* C32: `[]` or `[ ]` on the top-level args or steps key changes nothing: the
\* collection stays as it was (empty when it was empty) and the context
\* stays top, so that a following `- ` line is a top-level error; and a text
\* whose steps are `[]`, `[ ]` or a block without items is refused with the
\* at-least-one-step error, raised after the scan and not at a line.
C32_EmptyListShorthand == []EmptyLists /\ [][NoStepsOnlyAtEnd]_vars

\* the scalar fields and an argument are set, no step is: the next line may
\* be the steps key
C32_Witness ==
  /\ Scanning
  /\ context = "top"
  /\ ScalarsSet
  /\ result.steps = <<>>
  /\ Len(result.args) >= 1

\* a text without steps was refused at its end
C32_NoStepsWitness ==
  /\ pc = "error"
  /\ err.kind = "no_steps"
  /\ line = <<>>

\* the errors about the document as a whole, and those about an item that
\* lacks a required field
DocumentLevelKinds == {"missing_top_level_field", "no_steps"}
CompletenessKinds == {"arg_missing_field", "step_missing_field"}

\* the item in progress lacks a required field
ItemIncomplete ==
  \/ context = "args_item" /\ ~ValidArgument(currentItem)
  \/ context = "steps_item" /\ ~CompleteStep(currentItem)

\* the line closes the item in progress: a dash in the column of the item's
\* dash, or a key at indentation zero
ClosesItem(l) ==
  \/ matchListItem(l).ok /\ matchListItem(l).indent = itemDashIndent
  \/ ~matchListItem(l).ok /\ matchKeyValue(l).ok /\ matchKeyValue(l).indent = 0

\* what the end of the text has to give: the kind and subject of the error, or none
ExpectedAtEnd ==
  IF ItemIncomplete
    THEN <<IF context = "args_item" THEN "arg_missing_field" ELSE "step_missing_field", "item">>
  ELSE IF ~NonEmpty(result.name) THEN <<"missing_top_level_field", "name">>
  ELSE IF ~NonEmpty(result.description) THEN <<"missing_top_level_field", "description">>
  ELSE IF ~NonEmpty(result.version) THEN <<"missing_top_level_field", "version">>
  ELSE IF result.steps = <<>> /\ context # "steps_item" THEN <<"no_steps", "steps">>
  ELSE <<"none", "">>

\* one step of the parser, as the errors see it
FailFast ==
  /\ pc = "error" => UNCHANGED vars
  /\ pc' # "error" => err' = NoError
  /\ pc' = "error" /\ pc # "error" =>
       /\ err = NoError
       /\ err' # NoError
       /\ lineIdx' = lineIdx
       /\ IF line' # <<>>
            THEN /\ err'.kind \notin DocumentLevelKinds
                 /\ err'.line \in {0, lineIdx + 1}
                 /\ err'.kind \notin CompletenessKinds \cup {"inline_list_syntax"} =>
                      err'.line = lineIdx + 1
                 /\ err'.kind \in CompletenessKinds <=> ItemIncomplete /\ ClosesItem(line')
            ELSE /\ pc = "scan"
                 /\ err'.kind = ExpectedAtEnd[1]
                 /\ err'.kind \in DocumentLevelKinds => err'.subject = ExpectedAtEnd[2]
  /\ pc = "scan" /\ pc' = "done" => ExpectedAtEnd[1] = "none"

\* C33: the parser reports one error and stops: an error is raised from a
\* state without error and nothing happens after it; an error raised on a
\* line is that line's (a field error carries the line's number, a
\* completeness error is raised exactly when the line closes an incomplete
\* item); the document-level errors are raised only by the end of the scan,
\* when the item in progress is complete, for the first of name,
\* description, version that is not set, else for the missing steps.
C33_FirstDefectOnly == [][FailFast]_vars

\* the text ended without description and without steps: one error, for the description
C33_Witness ==
  /\ pc = "error"
  /\ line = <<>>
  /\ err.kind = "missing_top_level_field"
  /\ err.subject = "description"
  /\ lineIdx >= 2

\* a line found an error while the document also lacks its version
C33_LineWitness ==
  /\ pc = "error"
  /\ line # <<>>
  /\ err.kind = "invalid_autonomy"
  /\ err.line >= 4

\* a step object that carries value in field
Carrying(field, value) ==
  [f \in DOMAIN _emptyStep \cup {field} |-> IF f = field THEN value ELSE _emptyStep[f]]

\* the validator reports no enum violation for a step that carries v in field
ValidatorAccepts(field, v) ==
  IF field \in ListEnumFields
    THEN /\ ListEnumViolations(Carrying(field, <<v>>), "escalation_triggers",
                               validator_ESCALATION_TRIGGER_VALUES,
                               "invalid_escalation_trigger") = <<>>
         /\ ListEnumViolations(Carrying(field, <<v>>), "preconditions",
                               validator_CONDITION_VALUES, "invalid_precondition") = <<>>
         /\ ListEnumViolations(Carrying(field, <<v>>), "postconditions",
                               validator_CONDITION_VALUES, "invalid_postcondition") = <<>>
    ELSE ScalarEnumViolations(Carrying(field, v)) = <<>>

\* the line that writes v in field of the step in progress
CarryingLine(field, v) ==
  IF field \in ListEnumFields THEN KV(4, field, <<"[", v, "]">>) ELSE KV(4, field, <<v>>)

\* the values tried for a closed vocabulary
ClosedCandidates(field) == ClosedSet(field) \cup {"nope", "Stop"}

\* C34: on each closed vocabulary (autonomy, error_policy, the condition tags,
\* the escalation triggers, model) the parser accepts the line that writes a
\* value in a step exactly when the validator reports no enum violation for
\* a step that carries the value.
C34_VocabulariesAgree ==
  Scanning /\ context = "steps_item" =>
    \A field \in ScalarEnumFields \cup ListEnumFields \cup {"model"} :
      \A v \in ClosedCandidates(field) :
        Iteration(Locals, CarryingLine(field, v), lineIdx + 1).ctl # "throw"
          <=> ValidatorAccepts(field, v)

\* the same without the model
C34_SharedVocabulariesAgree ==
  Scanning /\ context = "steps_item" =>
    \A field \in ScalarEnumFields \cup ListEnumFields :
      \A v \in ClosedCandidates(field) :
        Iteration(Locals, CarryingLine(field, v), lineIdx + 1).ctl # "throw"
          <=> ValidatorAccepts(field, v)

\* the violations of a list that are of a kind and about a field
OfKindAbout(list, kind, field) ==
  SelectSeq(list, LAMBDA v : v.kind = kind /\ v.subject = field)

\* the top-level field of a document is missing
TopFieldMissing(document, field) ==
  IF field \in {"args", "steps"} THEN document[field] = NullItems
  ELSE document[field] \in {null, undefined, ""}

\* what the top-level violations of a document have to be
TopLevelAsRequired(document, list) ==
  /\ \A field \in {"name", "description", "version", "args", "steps"} :
       Len(OfKindAbout(list, "missing_top_level_field", field))
         = Count(TopFieldMissing(document, field))
  /\ document.args = <<>> =>
       \A i \in DOMAIN list : list[i].kind \in TopLevelKinds => list[i].subject # "args"
  /\ document.steps = <<>> =>
       /\ Len(OfKindAbout(list, "no_steps", "steps")) = 1
       /\ \A i \in DOMAIN list :
            list[i].kind \in TopLevelKinds /\ list[i].subject = "steps"
              => list[i].kind = "no_steps"
  /\ Len(OfKindAbout(list, "name_pattern", "name"))
       = Count(NonEmpty(document.name) /\ document.name \notin SlugWords)
  /\ ~NonEmpty(document.name) => \A i \in DOMAIN list : list[i].kind # "name_pattern"

\* the document with one of its scalar fields missing in each of the three ways
ScalarsBlanked(document) ==
  { [document EXCEPT ![field] = v] :
      field \in {"name", "description", "version"}, v \in {null, undefined, ""} }

\* C35: the violations the validator returns hold one missing-field violation
\* for each of name, description, version, args, steps that is missing (null,
\* undefined or the empty string) and none for a field that is set; an empty
\* list of args gives no violation about args; an empty list of steps gives
\* the at-least-one-step violation and no other about steps; the name
\* pattern violation is there exactly when the name is set and not a slug.
\* The same holds of the document with one scalar field blanked.
C35_TopLevelViolations ==
  pc \in {"validated", "revalidated", "declared"} =>
    /\ TopLevelAsRequired(playbook, violations)
    /\ \A document \in ScalarsBlanked(playbook) :
         TopLevelAsRequired(document, TopLevelViolations(document))

\* a document with an empty name, no version, no argument and no step
C35_Witness ==
  /\ pc = "validated"
  /\ playbook.name = ""
  /\ playbook.version = null
  /\ playbook.steps = <<>>
  /\ Len(violations) = 3

\* a document whose args and steps are null and whose name is missing
C35_NullListsWitness ==
  /\ pc = "validated"
  /\ playbook.args = NullItems
  /\ playbook.steps = NullItems
  /\ playbook.name = null
  /\ Len(violations) = 5

\* a name that is set and is not a slug, with an empty list of arguments
C35_SlugWitness ==
  /\ pc = "validated"
  /\ playbook.name = "Bad"
  /\ playbook.args = <<>>
  /\ OfKindAbout(violations, "name_pattern", "name") # <<>>

(***************************************************************************)
(* Sessions (session.js).  A field value is a sequence of characters; the  *)
(* fixed words (a status, a timestamp, a key) are one token each.  A file  *)
(* is the sequence of the tokens of its text, "\n" between the lines.  LS  *)
(* is U+2028, a line terminator that "." of a regular expression does not  *)
(* match.                                                                  *)
(***************************************************************************)
BS == "\\"
DQ == "\""
LS == "<U+2028>"
LineTerminators == {"\n", "\r", LS}

\* String.prototype.replace(/pattern/g, replacement): the matches are found
\* from left to right and do not overlap
RECURSIVE replaceAll(_, _, _)
replaceAll(value, pattern, replacement) ==
  IF Len(value) < Len(pattern) THEN value
  ELSE IF SubSeq(value, 1, Len(pattern)) = pattern
    THEN replacement
         \o replaceAll(SubSeq(value, Len(pattern) + 1, Len(value)), pattern, replacement)
  ELSE <<Head(value)>> \o replaceAll(Tail(value), pattern, replacement)

\* escape: backslash, double quote, newline, carriage return, tab, in that order
escape(value) ==
  LET a == replaceAll(value, <<BS>>, <<BS, BS>>)
      b == replaceAll(a, <<DQ>>, <<BS, DQ>>)
      c == replaceAll(b, <<"\n">>, <<BS, "n">>)
      d == replaceAll(c, <<"\r">>, <<BS, "r">>)
  IN replaceAll(d, <<"\t">>, <<BS, "t">>)

\* unescape: \t, \r, \n, \", \\ in that order, each over the whole value
unescape(value) ==
  LET a == replaceAll(value, <<BS, "t">>, <<"\t">>)
      b == replaceAll(a, <<BS, "r">>, <<"\r">>)
      c == replaceAll(b, <<BS, "n">>, <<"\n">>)
      d == replaceAll(c, <<BS, DQ>>, <<DQ>>)
  IN replaceAll(d, <<BS, BS>>, <<BS>>)

\* lines.join("\n") + "\n"
RECURSIVE join(_)
join(ls) == IF ls = <<>> THEN <<>> ELSE Head(ls) \o <<"\n">> \o join(Tail(ls))

\* `${prefix}${key}: "${escape(value)}"`
QuotedLine(prefix, key, value) == prefix \o <<key, ":", " ", DQ>> \o escape(value) \o <<DQ>>

\* /^<prefix>(key):\s*"(.*)"$/ on a line: the key, and the group between the
\* first quote after the colon and the quote that ends the line
QuotedMatch(l, prefix) ==
  LET n == Len(prefix)
      open == IF Len(l) >= n + 3 /\ l[n + 3] = " " THEN n + 4 ELSE n + 3
      ok == /\ Len(l) >= open + 1
            /\ SubSeq(l, 1, n) = prefix
            /\ l[n + 2] = ":"
            /\ l[open] = DQ
            /\ l[Len(l)] = DQ
            /\ \A i \in open + 1..Len(l) - 1 : l[i] \notin LineTerminators
  IN [ok |-> ok,
      key |-> IF ok THEN l[n + 1] ELSE "",
      group |-> IF ok THEN SubSeq(l, open + 1, Len(l) - 1) ELSE <<>>]

\* the keys of a session manifest and of a journal entry: words of [a-z_]+
SessionKeys ==
  {"session_id", "playbook", "feature", "args", "status", "started_at", "completed_at",
   "current_step", "worktree"}
EntryKeys ==
  {"step_id", "status", "decision", "started_at", "completed_at", "duration_seconds",
   "trigger", "human_response", "error"}
LowerWords == SessionKeys \cup EntryKeys \cup {"entries"}

\* the args of a session: the pairs of an object, in insertion order
Pair(key, value) == [key |-> key, value |-> value]

\* argsObj[key] = value
RECURSIVE SetKey(_, _, _)
SetKey(pairs, key, value) ==
  IF pairs = <<>> THEN <<Pair(key, value)>>
  ELSE IF Head(pairs).key = key THEN <<Pair(key, value)>> \o Tail(pairs)
  ELSE <<Head(pairs)>> \o SetKey(Tail(pairs), key, value)

serializeSession(session) ==
  LET top == <<>>
      args == IF session.args = <<>> THEN << <<"args", ":", " ", "{}">> >>
              ELSE << <<"args", ":">> >>
                   \o [i \in DOMAIN session.args |->
                         QuotedLine(<<"  ">>, session.args[i].key, session.args[i].value)]
  IN join(<<QuotedLine(top, "session_id", session.session_id),
            QuotedLine(top, "playbook", session.playbook),
            QuotedLine(top, "feature", session.feature)>>
          \o args
          \o <<QuotedLine(top, "status", session.status),
               QuotedLine(top, "started_at", session.started_at),
               QuotedLine(top, "completed_at", session.completed_at),
               QuotedLine(top, "current_step", session.current_step),
               QuotedLine(top, "worktree", session.worktree)>>)

\* the session object parseSession starts from
EmptySession ==
  [session_id |-> <<>>, playbook |-> <<>>, feature |-> <<>>, args |-> <<>>,
   status |-> <<>>, started_at |-> <<>>, completed_at |-> <<>>, current_step |-> <<>>,
   worktree |-> <<>>]

\* the body of the loop of parseSession on one line
SessionLine(P, l) ==
  LET argMatch == QuotedMatch(l, <<"  ">>)
      quotedMatch == QuotedMatch(l, <<>>)
  IN
  IF P.inArgs /\ argMatch.ok /\ argMatch.key # ":"
    THEN [P EXCEPT !.session.args = SetKey(@, argMatch.key, unescape(argMatch.group))]
  ELSE IF quotedMatch.ok /\ quotedMatch.key \in LowerWords
    THEN IF quotedMatch.key \in SessionKeys \ {"args"}
           THEN [session |-> [P.session EXCEPT ![quotedMatch.key] = unescape(quotedMatch.group)],
                 inArgs |-> FALSE]
           ELSE [P EXCEPT !.inArgs = FALSE]
  ELSE IF l = <<"args", ":", " ", "{}">> \/ l = <<"args", ":", "{}">>
    THEN [session |-> [P.session EXCEPT !.args = <<>>], inArgs |-> FALSE]
  ELSE IF l = <<"args", ":">> \/ l = <<"args", ":", " ">>
    THEN [P EXCEPT !.inArgs = TRUE]
  ELSE [P EXCEPT !.inArgs = FALSE]

RECURSIVE SessionLines(_, _)
SessionLines(P, ls) ==
  IF ls = <<>> THEN P ELSE SessionLines(SessionLine(P, Head(ls)), Tail(ls))

parseSession(content) ==
  SessionLines([session |-> EmptySession, inArgs |-> FALSE], split(content)).session

\* the timestamps of the entries and Date.parse of them, in milliseconds;
\* NaN for what is not a date
NaN == -1
Clock ==
  [ts \in {"2026-02-19T10:00:01Z", "2026-02-19T10:00:04Z"} |->
     IF ts = "2026-02-19T10:00:01Z" THEN 1000 ELSE 4000]
Date_parse(value) ==
  IF Len(value) = 1 /\ value[1] \in DOMAIN Clock THEN Clock[value[1]] ELSE NaN

\* the decimal writing of a number, and the numbers /\d+/ reads back
MaxSeconds == 9
Numeral(n) == IF n < 0 THEN <<"-", ToString(0 - n)>> ELSE <<ToString(n)>>
Digits == {ToString(n) : n \in 0..MaxSeconds}
Number(token) == CHOOSE n \in 0..MaxSeconds : ToString(n) = token

\* an entry is the function of the keys it defines
Has(entry, key) == key \in DOMAIN entry
With(entry, key, value) == (key :> value) @@ entry

\* the entry appendJournalEntry pushes: the required fields, the optional
\* ones that are defined, the duration computed from the timestamps
Normalized(entry) ==
  LET computed ==
        /\ ~Has(entry, "duration_seconds")
        /\ entry.started_at # <<>>
        /\ Has(entry, "completed_at") /\ entry.completed_at # <<>>
        /\ Date_parse(entry.started_at) # NaN
        /\ Date_parse(entry.completed_at) # NaN
      required == [key \in {"step_id", "status", "decision", "started_at"} |-> entry[key]]
      a == IF Has(entry, "completed_at")
             THEN With(required, "completed_at", entry.completed_at) ELSE required
      b == IF Has(entry, "duration_seconds")
             THEN With(a, "duration_seconds", entry.duration_seconds)
           ELSE IF computed
             THEN With(a, "duration_seconds",
                       (Date_parse(entry.completed_at) - Date_parse(entry.started_at)) \div 1000)
           ELSE a
      c == IF Has(entry, "trigger") THEN With(b, "trigger", entry.trigger) ELSE b
      d == IF Has(entry, "human_response")
             THEN With(c, "human_response", entry.human_response) ELSE c
  IN IF Has(entry, "error") THEN With(d, "error", entry.error) ELSE d

\* the lines serializeJournal writes for one entry
EntryLines(entry) ==
  LET field == <<"    ">>
      optional(key) == IF Has(entry, key) THEN <<QuotedLine(field, key, entry[key])>> ELSE <<>>
  IN <<QuotedLine(<<"  - ">>, "step_id", entry.step_id),
       QuotedLine(field, "status", entry.status),
       QuotedLine(field, "decision", entry.decision),
       QuotedLine(field, "started_at", entry.started_at)>>
     \o optional("completed_at")
     \o (IF Has(entry, "duration_seconds")
           THEN << field \o <<"duration_seconds", ":", " ">> \o Numeral(entry.duration_seconds) >>
           ELSE <<>>)
     \o optional("trigger")
     \o optional("human_response")
     \o optional("error")

RECURSIVE AllEntryLines(_)
AllEntryLines(entries) ==
  IF entries = <<>> THEN <<>> ELSE EntryLines(Head(entries)) \o AllEntryLines(Tail(entries))

EmptyJournal == <<"entries", ":", " ", "[]", "\n">>

serializeJournal(journal) ==
  IF Len(journal.entries) = 0 THEN EmptyJournal
  ELSE join(<< <<"entries", ":">> >> \o AllEntryLines(journal.entries))

\* let current = null: no entry is being read
NoEntry == [null |-> TRUE]

\* the body of the loop of parseJournal on one line
JournalLine(P, l) ==
  LET entryStart == QuotedMatch(l, <<"  - ">>)
      quotedField == QuotedMatch(l, <<"    ">>)
      numericField == /\ Len(l) \in {4, 5}
                      /\ l[1] = "    "
                      /\ l[2] \in LowerWords
                      /\ l[3] = ":"
                      /\ Len(l) = 5 => l[4] = " "
                      /\ l[Len(l)] \in Digits
  IN
  IF entryStart.ok /\ entryStart.key = "step_id"
    THEN [entries |-> IF P.current # NoEntry THEN Append(P.entries, P.current) ELSE P.entries,
          current |-> [step_id |-> unescape(entryStart.group)]]
  ELSE IF P.current = NoEntry THEN P
  ELSE IF quotedField.ok /\ quotedField.key \in LowerWords
    THEN [P EXCEPT !.current = With(@, quotedField.key, unescape(quotedField.group))]
  ELSE IF numericField
    THEN [P EXCEPT !.current = With(@, l[2], Number(l[Len(l)]))]
  ELSE P

RECURSIVE JournalLines(_, _)
JournalLines(P, ls) ==
  IF ls = <<>> THEN P ELSE JournalLines(JournalLine(P, Head(ls)), Tail(ls))

\* String.prototype.trim on a text
Blank == {" ", "\t", "\n", "\r", LS}
trimText(content) ==
  SubSeq(content, LeadingIn(content, Blank) + 1, Len(content) - TrailingIn(content, Blank))

parseJournal(content) ==
  IF trimText(content) \in {<<"entries", ":", " ", "[]">>, <<"entries", ":", "[]">>}
    THEN [entries |-> <<>>]
  ELSE LET P == JournalLines([entries |-> <<>>, current |-> NoEntry], split(content))
       IN [entries |-> IF P.current # NoEntry THEN Append(P.entries, P.current)
                       ELSE P.entries]

(***************************************************************************)
(* createSession, step by step: each call to the file system (existsSync,  *)
(* mkdirSync, writeFileSync) is one step, so that the calls of two         *)
(* processes interleave.  sessionsDir maps a session ID to its directory.  *)
(***************************************************************************)
parserVars ==
  <<lineIdx, line, pc, context, currentItem, listField, listIndent, itemDashIndent, result,
    err, playbook, violations, file, lines, stdout, exitCode>>

MAX_RETRIES == 3

\* the processes that may run createSession at the same time
Procs == {1, 2}

\* what generateSessionId can return (a date and three random characters)
SessionIds == {"20260219-a7k", "20260219-b2c"}

NoDirectory == [exists |-> FALSE, files |-> <<>>]

\* the directory of a session that was created before
OldDirectory ==
  [exists |-> TRUE,
   files |-> [name \in {"session.yaml", "journal.yaml"} |->
                IF name = "journal.yaml" THEN EmptyJournal
                ELSE <<"session_id", ":", " ", DQ, "old", DQ, "\n">>]]

\* the locals of a call of createSession; candidates records each ID that
\* was generated and whether its directory existed when it was checked
NewCall(options) ==
  [pc |-> "generate", attempt |-> 0, sessionId |-> null, candidates |-> <<>>,
   options |-> options]

Options(playbookName, feature, args, worktree) ==
  [playbookName |-> playbookName, feature |-> feature, args |-> args, worktree |-> worktree]

\* the manifest createSession writes
Manifest(call) ==
  [session_id |-> <<call.sessionId>>,
   playbook |-> call.options.playbookName,
   feature |-> call.options.feature,
   args |-> call.options.args,
   status |-> <<"pending">>,
   started_at |-> <<"2026-02-19T10:00:01Z">>,
   completed_at |-> <<>>,
   current_step |-> <<>>,
   worktree |-> call.options.worktree]

\* writeFileSync(join(sessionDir, name), content)
writeFileSync(id, name, content) ==
  sessionsDir' = [sessionsDir EXCEPT ![id].files = (name :> content) @@ @]

\* variant: the last candidate is used even when its directory exists
Attempt_lastUsed(p) ==
  /\ p \in DOMAIN calls
  /\ calls[p].pc = "generate"
  /\ \E id \in SessionIds :
       LET existed == sessionsDir[id].exists
           tried == Append(calls[p].candidates, [id |-> id, existed |-> existed])
       IN calls' = [calls EXCEPT ![p] =
            IF ~existed \/ @.attempt = MAX_RETRIES - 1
              THEN [@ EXCEPT !.sessionId = id, !.candidates = tried, !.pc = "mkdir"]
            ELSE [@ EXCEPT !.candidates = tried, !.attempt = @ + 1]]
  /\ UNCHANGED <<sessionsDir, request, answer, parserVars>>

\* one pass of the retry loop: generateSessionId, existsSync, break or
\* throw or go round again
Attempt(p) ==
  /\ p \in DOMAIN calls
  /\ calls[p].pc = "generate"
  /\ \E id \in SessionIds :
       LET existed == sessionsDir[id].exists
           tried == Append(calls[p].candidates, [id |-> id, existed |-> existed])
       IN calls' = [calls EXCEPT ![p] =
            IF ~existed
              THEN [@ EXCEPT !.sessionId = id, !.candidates = tried, !.pc = "mkdir"]
            ELSE IF @.attempt = MAX_RETRIES - 1
              THEN [@ EXCEPT !.candidates = tried, !.pc = "threw"]
            ELSE [@ EXCEPT !.candidates = tried, !.attempt = @ + 1]]
  /\ UNCHANGED <<sessionsDir, request, answer, parserVars>>

\* mkdirSync(sessionDir, { recursive: true }): no error when it exists
Mkdir(p) ==
  /\ p \in DOMAIN calls
  /\ calls[p].pc = "mkdir"
  /\ sessionsDir' = [sessionsDir EXCEPT ![calls[p].sessionId].exists = TRUE]
  /\ calls' = [calls EXCEPT ![p].pc = "write_session"]
  /\ UNCHANGED <<request, answer, parserVars>>

WriteSessionYaml(p) ==
  /\ p \in DOMAIN calls
  /\ calls[p].pc = "write_session"
  /\ writeFileSync(calls[p].sessionId, "session.yaml", serializeSession(Manifest(calls[p])))
  /\ calls' = [calls EXCEPT ![p].pc = "write_journal"]
  /\ UNCHANGED <<request, answer, parserVars>>

\* the last write, and return sessionId
WriteJournalYaml(p) ==
  /\ p \in DOMAIN calls
  /\ calls[p].pc = "write_journal"
  /\ writeFileSync(calls[p].sessionId, "journal.yaml", EmptyJournal)
  /\ calls' = [calls EXCEPT ![p].pc = "returned"]
  /\ UNCHANGED <<request, answer, parserVars>>

\* the parser and the check command are not running
ParserIdle ==
  /\ lineIdx = 0
  /\ line = <<>>
  /\ pc = "session"
  /\ context = InitialLocals.context
  /\ currentItem = InitialLocals.currentItem
  /\ listField = InitialLocals.listField
  /\ listIndent = InitialLocals.listIndent
  /\ itemDashIndent = InitialLocals.itemDashIndent
  /\ result = InitialLocals.result
  /\ err = NoError
  /\ playbook = NoItem
  /\ violations = <<>>
  /\ file = NoFile
  /\ lines = <<>>
  /\ stdout = <<>>
  /\ exitCode = NoExit

\* no call but createSession was made, nothing was read
NoRequest == [op |-> "none", seq |-> 0]
NoAnswer == [none |-> TRUE]

\* two start commands launched together, in a sessions directory where any
\* of the IDs may be taken already
CreateInit ==
  /\ ParserIdle
  /\ sessionsDir \in [SessionIds -> {NoDirectory, OldDirectory}]
  /\ calls = <<NewCall(Options(<<"p">>, <<"f">>, <<Pair("feature", <<"f">>)>>, <<"w">>)),
               NewCall(Options(<<"p">>, <<"g">>, <<Pair("feature", <<"g">>)>>, <<"w">>))>>
  /\ request = NoRequest
  /\ answer = NoAnswer

CreateNext ==
  \/ \E p \in Procs : Attempt(p)
  \/ \E p \in Procs : Mkdir(p)
  \/ \E p \in Procs : WriteSessionYaml(p)
  \/ \E p \in Procs : WriteJournalYaml(p)

CreateSpec == CreateInit /\ [][CreateNext]_vars

(***************************************************************************)
(* One session: created, then read and updated (readSession,               *)
(* updateSession).  The feature given to createSession is any string of    *)
(* up to MaxChars characters of Alphabet.                                  *)
(***************************************************************************)
MaxChars == 2
Alphabet == {BS, DQ, "\n", "\t", "n", "a"}
Strings == UNION { [1..k -> Alphabet] : k \in 0..MaxChars }

\* the session.yaml of a session that was created
SessionFile(id) == sessionsDir[id].files["session.yaml"]
JournalFile(id) == sessionsDir[id].files["journal.yaml"]
Created(id) == \E p \in DOMAIN calls : calls[p].pc = "returned" /\ calls[p].sessionId = id

\* readSession(sessionDir)
readSession(id) == parseSession(SessionFile(id))

\* { ...current, ...fields }
Merged(current, fields) ==
  [key \in SessionKeys |-> IF key \in DOMAIN fields THEN fields[key] ELSE current[key]]

\* the fields updateSession is called with
UpdateFields ==
  { [status |-> <<"running">>, current_step |-> <<"a", BS, "t">>],
    [args |-> <<Pair("feature", <<DQ, "a", DQ>>), Pair("note", <<"a", "\n", "n">>)>>] }

SessionInit ==
  /\ ParserIdle
  /\ sessionsDir = [id \in SessionIds |-> NoDirectory]
  /\ \E feature \in Strings :
       calls = <<NewCall(Options(<<"p">>, feature, <<Pair("feature", feature)>>, <<"w">>))>>
  /\ request = NoRequest
  /\ answer = NoAnswer

UpdateSession(id, fields) ==
  /\ Created(id)
  /\ writeFileSync(id, "session.yaml", serializeSession(Merged(readSession(id), fields)))
  /\ request' = [op |-> "updateSession", seq |-> 0, fields |-> fields]
  /\ UNCHANGED <<calls, answer, parserVars>>

ReadSession(id) ==
  /\ Created(id)
  /\ answer' = readSession(id)
  /\ UNCHANGED <<sessionsDir, calls, request, parserVars>>

SessionNext ==
  \/ \E p \in Procs : Attempt(p)
  \/ \E p \in Procs : Mkdir(p)
  \/ \E p \in Procs : WriteSessionYaml(p)
  \/ \E p \in Procs : WriteJournalYaml(p)
  \/ \E id \in SessionIds, fields \in UpdateFields : UpdateSession(id, fields)
  \/ \E id \in SessionIds : ReadSession(id)

SessionSpec == SessionInit /\ [][SessionNext]_vars

(***************************************************************************)
(* The journal of one session: up to MaxAppends calls of                   *)
(* appendJournalEntry, and readJournal.                                    *)
(***************************************************************************)
MaxAppends == 2

\* readJournal(sessionDir)
readJournal(id) == parseJournal(JournalFile(id))

\* the entries appendJournalEntry is called with: a plain step or one whose
\* id holds U+2028; no end, an end after the start or before it; no error
\* text or one with a backslash, a quote, a newline
RequiredOf(step_id, started_at) ==
  [step_id |-> step_id, status |-> <<"done">>, decision |-> <<"auto">>,
   started_at |-> started_at]
StepIdTexts == {<<"a">>, <<"b", LS>>}
ErrorTexts == {<<BS, "n">>, <<"a", DQ, "\n">>}
Timed ==
  { RequiredOf(step_id, <<"2026-02-19T10:00:01Z">>) : step_id \in StepIdTexts }
  \cup { With(RequiredOf(step_id, <<"2026-02-19T10:00:01Z">>), "completed_at",
              <<"2026-02-19T10:00:04Z">>) : step_id \in StepIdTexts }
  \cup { With(RequiredOf(step_id, <<"2026-02-19T10:00:04Z">>), "completed_at",
              <<"2026-02-19T10:00:01Z">>) : step_id \in StepIdTexts }
EntryInputs == Timed \cup { With(entry, "error", text) : entry \in Timed, text \in ErrorTexts }

JournalInit ==
  /\ ParserIdle
  /\ sessionsDir = [id \in SessionIds |-> NoDirectory]
  /\ calls = <<NewCall(Options(<<"p">>, <<"f">>, <<Pair("feature", <<"f">>)>>, <<"w">>))>>
  /\ request = NoRequest
  /\ answer = NoAnswer

\* appendJournalEntry(sessionDir, entry): read, push, write
AppendJournalEntry(id, entry) ==
  /\ Created(id)
  /\ request.seq < MaxAppends
  /\ LET journal == readJournal(id)
         pushed == [entries |-> Append(journal.entries, Normalized(entry))]
     IN writeFileSync(id, "journal.yaml", serializeJournal(pushed))
  /\ request' = [op |-> "appendJournalEntry", seq |-> request.seq + 1, entry |-> entry]
  /\ UNCHANGED <<calls, answer, parserVars>>

ReadJournal(id) ==
  /\ Created(id)
  /\ answer' = readJournal(id)
  /\ UNCHANGED <<sessionsDir, calls, request, parserVars>>

JournalNext ==
  \/ \E p \in Procs : Attempt(p)
  \/ \E p \in Procs : Mkdir(p)
  \/ \E p \in Procs : WriteSessionYaml(p)
  \/ \E p \in Procs : WriteJournalYaml(p)
  \/ \E id \in SessionIds, entry \in EntryInputs : AppendJournalEntry(id, entry)
  \/ \E id \in SessionIds : ReadJournal(id)

JournalSpec == JournalInit /\ [][JournalNext]_vars

\* the candidates of a call but the last all existed when they were checked
EarlierAllExisted(call) ==
  \A i \in 1..Len(call.candidates) - 1 : call.candidates[i].existed

LastCandidate(call) == call.candidates[Len(call.candidates)]

\* where a call of createSession stands, against the candidates it generated
CandidatesInOrder ==
  \A p \in DOMAIN calls :
    LET call == calls[p] IN
    /\ Len(call.candidates) <= 3
    /\ call.pc = "generate" =>
         /\ Len(call.candidates) < 3
         /\ \A i \in DOMAIN call.candidates : call.candidates[i].existed
    /\ call.pc = "threw" =>
         /\ Len(call.candidates) = 3
         /\ \A i \in DOMAIN call.candidates : call.candidates[i].existed
         /\ call.sessionId = null
    /\ call.pc \in {"mkdir", "write_session", "write_journal", "returned"} =>
         /\ call.candidates # <<>>
         /\ EarlierAllExisted(call)
         /\ ~LastCandidate(call).existed
         /\ call.sessionId = LastCandidate(call).id

\* a step of a call in its loop, or of one that threw, leaves the sessions
\* directory alone; any other step touches only the directory of the call's
\* ID, which did not exist when the call checked it
WritesOnlyOwnDirectory ==
  \A p \in DOMAIN calls :
    calls'[p] # calls[p] =>
      IF calls[p].pc \in {"generate", "threw"} THEN sessionsDir' = sessionsDir
      ELSE /\ \A id \in SessionIds \ {calls[p].sessionId} : sessionsDir'[id] = sessionsDir[id]
           /\ ~LastCandidate(calls[p]).existed
           /\ LastCandidate(calls[p]).id = calls[p].sessionId

\* C36: createSession generates at most 3 candidates and uses the first whose
\* directory did not exist when checked; when all 3 exist it throws, and a
\* call that is in its loop or threw changes nothing in the sessions
\* directory; a directory or file is written only under the ID whose
\* directory did not exist when it was checked.
C36_AtMostThreeCandidates == []CandidatesInOrder /\ [][WritesOnlyOwnDirectory]_vars

\* the three candidates of a call all collided and nothing else was touched
C36_Witness ==
  \E p \in DOMAIN calls :
    /\ calls[p].pc = "threw"
    /\ Len(calls[p].candidates) = 3
    /\ \A id \in SessionIds : sessionsDir[id] = OldDirectory

\* the third candidate was free and the session was written under it
C36_ThirdWitness ==
  \E p \in DOMAIN calls :
    /\ calls[p].pc = "returned"
    /\ Len(calls[p].candidates) = 3
    /\ "session.yaml" \in DOMAIN sessionsDir[calls[p].sessionId].files

Returned(p) == calls[p].pc = "returned"

\* C39: two createSession calls that interleave never obtain the same
\* session ID, and the session.yaml of a call that returned is the one that
\* call wrote: the other call did not overwrite it.
C39_NoSharedSession ==
  /\ \A p, q \in DOMAIN calls :
       p # q /\ Returned(p) /\ Returned(q) => calls[p].sessionId # calls[q].sessionId
  /\ \A p \in DOMAIN calls :
       Returned(p) =>
         sessionsDir[calls[p].sessionId].files["session.yaml"]
           = serializeSession(Manifest(calls[p]))

\* the call that created the session
CreatorOf(id) == CHOOSE p \in DOMAIN calls : calls[p].pc = "returned" /\ calls[p].sessionId = id

\* C38: unescape undoes escape, so what readSession yields for a session is
\* what was written last: the fields createSession was given as long as no
\* update was made, and the fields of the last updateSession after one.
C38_ReadBackUnchanged ==
  \A id \in SessionIds :
    Created(id) =>
      LET written == calls[CreatorOf(id)].options
          session == readSession(id)
      IN /\ unescape(escape(written.feature)) = written.feature
         /\ request.op = "none" =>
              /\ session.feature = written.feature
              /\ session.args = written.args
              /\ session.playbook = written.playbookName
              /\ session.worktree = written.worktree
              /\ session.session_id = <<id>>
         /\ request.op = "updateSession" =>
              \A key \in DOMAIN request.fields : session[key] = request.fields[key]

\* a step that is a call of appendJournalEntry on the journal of id
Appended(id) ==
  /\ Created(id)
  /\ request'.op = "appendJournalEntry"
  /\ request'.seq = request.seq + 1

\* the call kept what readJournal yielded before it and added the new entry
KeepsAndAdds(id) ==
  Appended(id) =>
    parseJournal(JournalFile(id)').entries
      = Append(parseJournal(JournalFile(id)).entries, Normalized(request'.entry))

\* the call kept what readJournal yielded before it, whatever became of the
\* new entry
KeepsEarlier(id) ==
  Appended(id) =>
    LET before == parseJournal(JournalFile(id)).entries
        after == parseJournal(JournalFile(id)').entries
    IN /\ Len(after) >= Len(before)
       /\ SubSeq(after, 1, Len(before)) = before

\* C37: after appendJournalEntry returns, readJournal yields the entries it
\* yielded before the call, in the same order and with the same values,
\* followed by the new entry, at every append of a sequence of appends.
C37_AppendKeepsEntries == [][\A id \in SessionIds : KeepsAndAdds(id)]_vars

\* the part of it about the earlier entries only
C37_EarlierEntriesKept == [][\A id \in SessionIds : KeepsEarlier(id)]_vars

=============================================================================
